---- MODULE Spec2Model ----
(***************************************************************************)
(* A model of the decision / execution / learning core of the E*TRADE AI   *)
(* trading assistant (src/etrade_python_client).                            *)
(*                                                                         *)
(* Numbers.  Confidence scores, sentiment scores and the configured        *)
(* threshold are hundredths (70 is 0.7).  The parameters a learning        *)
(* context stores are exact fractions <<numerator, denominator>>, because   *)
(* accuracy_rate = positive / total is not a multiple of 0.01; binary      *)
(* floating point rounding of the last digit is not modelled.  Share       *)
(* quantities a portfolio reports are half shares (3 is 1.5 shares), so    *)
(* that int() truncates; order quantities are whole shares.  Time is days. *)
(* A timestamp of 0 is the database NULL.                                   *)
(*                                                                         *)
(* Task preambles.  Each Celery task opens its session with                 *)
(*   async with get_db_session().__anext__() as session                     *)
(* and execute_etrade_trades builds ETradeOrderService(etrade_auth).  With  *)
(* database.get_db_session (an async generator) the first statement raises  *)
(* TypeError, and tasks.py never imports ETradeOrderService, so the second  *)
(* raises NameError; both land in the task's outer except.  The model keeps *)
(* that outcome and also the one in which the statement completes, so the   *)
(* task bodies are covered for a session provider and a name binding that   *)
(* work: the behaviours of the code as shipped are a subset of the model's. *)
(* UserFeedback.POSITIVE / NEGATIVE (tasks.py 287, 289) are treated the     *)
(* same way: the lookup raises AttributeError (models.py defines GOOD, BAD, *)
(* NEUTRAL only) or yields a member no stored feedback is equal to.         *)
(***************************************************************************)
EXTENDS Integers, Sequences, FiniteSets, TLC

VARIABLES
    config,        \* ConfigManager values of the process: threshold, auto_trading
    model,         \* AITradingService.model is set (Gemini initialised)
    has_prefs,     \* a UserPreferences row exists
    auto_trading_enabled, \* UserPreferences.auto_trading_enabled of that row
    decisions,     \* table ai_decisions, in insertion order
    deleted,       \* the rows of ai_decisions that cleanup_old_data has deleted
    contexts,      \* table ai_learning_context, in insertion order
    now,           \* datetime.now(), in days
    opt,           \* optimize_ai_learning: the local state of each running task
    hist,          \* history: an optimize_ai_learning run that found feedback has ended
    params,        \* the learning parameters last derived (pure-function runs)
    analysis,      \* the sentiment call last made and what it gave (pure-function runs)
    authenticated, \* etrade_auth.session is set
    accounts,      \* the accountIdKey of each account the broker lists
    portfolio,     \* the positions the broker reports, in response order
    exec,          \* execute_etrade_trades: the local state of each running task
    requests,      \* history: the order requests sent to the broker, in order
    outcomes       \* history: how each decision of a batch ended, in order

envVars == <<config, model, has_prefs, auto_trading_enabled, authenticated, accounts,
            portfolio, deleted>>
learnVars == <<contexts, opt, hist>>
execVars == <<exec, requests, outcomes>>
vars == <<envVars, decisions, now, learnVars, params, analysis, execVars>>

-----------------------------------------------------------------------------
(* Bounds of the model *)

MaxGateDecisions == 2
MaxLearnDecisions == 1
MaxContexts == 2
MaxTicks == 1
MaxTotal == 14
MaxExecDecisions == 2
MaxRuns == 1
MaxPositions == 2
MaxHeld == 3
MaxRaceDecisions == 1
MaxApiCalls == 1
MaxOrderCalls == 2
MaxClientOrderIds == 2

MaxHeadlines == 2

MaxBrokerCalls == 3

MaxLifecycleDecisions == 1

MaxBatchSymbols == 2

MaxCleanupDecisions == 2
MaxCleanupTicks == 2

(* Program constants *)

DefaultThreshold == 70
FallbackBuyAbove == 30
FallbackSellBelow == -30
FallbackConfidence == 60
FallbackHoldConfidence == 50
FeedbackWindowDays == 30
DataRetentionDays == 30
BatchLimit == 5
RequestedQuantity == 1

\* the clock advances by one feedback window at a time
DayStep == FeedbackWindowDays

Workers == {"w1", "w2"}
Symbols == {"AAPL", "MSFT"}

Min(a, b) == IF a < b THEN a ELSE b
Max(a, b) == IF a > b THEN a ELSE b

-----------------------------------------------------------------------------
(* database/models.py: the enumerations *)

DecisionType == {"BUY", "SELL", "HOLD", "WATCH"}
UserFeedback == {"GOOD", "BAD", "NEUTRAL"}
NoValue == "NONE"

-----------------------------------------------------------------------------
(* services/ai_trading_service.py: the decision engine *)

\* str.upper() on the tokens the backend is modelled to answer with
Upper(token) ==
    CASE token = "buy"  -> "BUY"
      [] token = "sell" -> "SELL"
      [] token = "hold" -> "HOLD"
      [] OTHER -> token

\* DecisionType(decision_type_str), ValueError mapped to HOLD
ParseDecisionType(token) ==
    IF Upper(token) \in DecisionType THEN Upper(token) ELSE "HOLD"

BelowThreshold_never(confidence, threshold) == FALSE

\* the comparison of the confidence gate
BelowThreshold(confidence, threshold) == confidence < threshold

\* generate_trading_decision, backend path after a successful parse
BackendDecision(answer, threshold) ==
    LET raw == ParseDecisionType(answer.decision)
        gated == BelowThreshold(answer.confidence, threshold)
    IN  [decision_type |-> IF gated THEN "HOLD" ELSE raw,
         confidence_score |-> answer.confidence,
         note |-> IF gated THEN "confidence_below_threshold" ELSE NoValue,
         path |-> "backend",
         raw |-> raw]

FallbackRaw_inclusive(sentiment_score) ==
    IF sentiment_score >= FallbackBuyAbove THEN "BUY"
    ELSE IF sentiment_score <= FallbackSellBelow THEN "SELL"
    ELSE "HOLD"

\* _fallback_trading_decision, lines 262-278: the type before the gate
FallbackRaw(sentiment_score) ==
    IF sentiment_score > FallbackBuyAbove THEN "BUY"
    ELSE IF sentiment_score < FallbackSellBelow THEN "SELL"
    ELSE "HOLD"

\* _fallback_trading_decision
FallbackDecision(sentiment_score, threshold) ==
    LET raw == FallbackRaw(sentiment_score)
        confidence == IF raw = "HOLD" THEN FallbackHoldConfidence
                      ELSE FallbackConfidence
        gated == BelowThreshold(confidence, threshold)
    IN  [decision_type |-> IF gated THEN "HOLD" ELSE raw,
         confidence_score |-> confidence,
         note |-> IF gated THEN "below_confidence_threshold" ELSE NoValue,
         path |-> "fallback",
         raw |-> raw]

\* generate_trading_decision: answer.kind is "json" when the backend's text
\* parsed and converted, "raises" when anything in the try block raised
GenerateTradingDecision(answer, sentiment_score, threshold) ==
    IF ~model THEN FallbackDecision(sentiment_score, threshold)
    ELSE IF answer.kind = "json" THEN BackendDecision(answer, threshold)
    ELSE FallbackDecision(sentiment_score, threshold)

\* config_manager.get_ai_confidence_threshold()
GetAIConfidenceThreshold == config.threshold

-----------------------------------------------------------------------------
(* The active learning context(s), as a query would see them *)

ActiveContexts == {i \in 1..Len(contexts) : contexts[i].is_active}
ActiveThresholds == {contexts[i].confidence_threshold : i \in ActiveContexts}

-----------------------------------------------------------------------------
(* Exact fractions <<numerator, denominator>>, denominator > 0 *)

FracEq(a, b) == a[1] * b[2] = b[1] * a[2]
FracLeq(a, b) == a[1] * b[2] <= b[1] * a[2]
Hundredths(n) == <<n, 100>>

-----------------------------------------------------------------------------
(* web/main.py: analyze_symbol stores the decision generate_trading_decision
   returns (tasks.analyze_symbol_background does the same).  gated_against and
   active_at_call are history: the threshold the gate compared with, and the
   thresholds of the learning contexts active at the call. *)

AnalyzeSymbol(symbol, sentiment_score, answer, limit) ==
    /\ has_prefs
    /\ Len(decisions) < limit
    /\ LET d == GenerateTradingDecision(answer, sentiment_score,
                                        GetAIConfidenceThreshold)
       IN  decisions' = Append(decisions,
              [symbol |-> symbol,
               decision_type |-> d.decision_type,
               confidence_score |-> d.confidence_score,
               note |-> d.note,
               path |-> d.path,
               created_at |-> now,
               executed_at |-> 0,
               user_feedback |-> NoValue,
               feedback_timestamp |-> 0,
               gated_against |-> Hundredths(GetAIConfidenceThreshold),
               active_at_call |-> ActiveThresholds])
    /\ UNCHANGED <<envVars, now, learnVars, params, analysis, execVars>>

SubmitDecisionFeedback_regating(id, feedback) ==
    /\ id \in 1..Len(decisions)
    /\ decisions' = [decisions EXCEPT ![id].user_feedback = feedback,
                                      ![id].feedback_timestamp = now,
                                      ![id].decision_type = "HOLD"]
    /\ UNCHANGED <<envVars, now, learnVars, params, analysis, execVars>>

\* web/main.py: submit_decision_feedback; for an unknown id the 404 is raised
\* before anything is written
SubmitDecisionFeedback(id, feedback) ==
    /\ decisions' = IF id \in 1..Len(decisions) \ deleted
                      THEN [decisions EXCEPT ![id].user_feedback = feedback,
                                             ![id].feedback_timestamp = now]
                      ELSE decisions
    /\ UNCHANGED <<envVars, now, learnVars, params, analysis, execVars>>

\* the clock, which advances at most limit times
Advance(limit) ==
    /\ now + DayStep <= 1 + limit * DayStep
    /\ now' = now + DayStep
    /\ UNCHANGED <<envVars, decisions, learnVars, params, analysis, execVars>>

Tick == Advance(MaxTicks)

-----------------------------------------------------------------------------
(* services/tasks.py: cleanup_old_data, the ai_decisions part *)

\* a delete statement without the user_feedback condition
OldDecisions_all ==
    {i \in 1..Len(decisions) \ deleted :
        decisions[i].created_at < now - DataRetentionDays}

\* lines 196-201: the rows the delete statement matches
OldDecisions ==
    {i \in 1..Len(decisions) \ deleted :
        /\ decisions[i].created_at < now - DataRetentionDays
        /\ decisions[i].user_feedback = NoValue}

\* lines 172-215: the session, the delete statement and the commit; the task
\* deletes nothing when the session or the commit fails
CleanupOldData(acquire, committed) ==
    /\ deleted' = IF acquire = "session" /\ committed
                    THEN deleted \cup OldDecisions
                    ELSE deleted
    /\ UNCHANGED <<config, model, has_prefs, auto_trading_enabled, authenticated,
                   accounts, portfolio, decisions, now, learnVars, params, analysis,
                   execVars>>

-----------------------------------------------------------------------------
(* services/tasks.py: optimize_ai_learning *)

\* outcomes of the statements discussed in the header
SessionAcquire == {"raises", "session"}
MemberLookup == {"raises", "member"}

\* the query for recent decisions with feedback
DecisionsWithFeedback ==
    {i \in 1..Len(decisions) \ deleted :
        /\ decisions[i].user_feedback # NoValue
        /\ decisions[i].feedback_timestamp > now - FeedbackWindowDays}

NothingToLearn_never(feedback) == FALSE

\* if not decisions_with_feedback
NothingToLearn(feedback) == feedback = {}

\* len([d for d in decisions_with_feedback if d.user_feedback == UserFeedback.<member>])
CountFeedback(feedback, member) ==
    Cardinality({i \in feedback : decisions[i].user_feedback = member})

\* accuracy_rate = positive_feedback / total_feedback if total_feedback > 0 else 0
AccuracyRate(positive, total) ==
    IF total > 0 THEN <<positive, total>> ELSE <<0, 1>>

ConfidenceThreshold_unclamped(accuracy) ==
    <<70 * accuracy[2] + (100 * accuracy[1] - 50 * accuracy[2]), 100 * accuracy[2]>>

\* max(0.5, min(0.9, 0.7 + (accuracy_rate - 0.5)))
ConfidenceThreshold(accuracy) ==
    <<Max(50 * accuracy[2],
          Min(90 * accuracy[2],
              70 * accuracy[2] + (100 * accuracy[1] - 50 * accuracy[2]))),
      100 * accuracy[2]>>

\* 1.0 + (accuracy_rate - 0.5) * 0.2
RiskAdjustment(accuracy) ==
    <<100 * accuracy[2] + ((100 * accuracy[1] - 50 * accuracy[2]) * 20) \div 100,
      100 * accuracy[2]>>

IdleTask ==
    [pc |-> "idle", queried |-> FALSE, feedback |-> {}, good |-> 0, positive |-> 0,
     negative |-> 0, active |-> 0, result |-> NoValue, created |-> 0]

\* history: a task that had found feedback has ended (fed)
HistAfter(w) ==
    [fed |-> hist.fed \/ (opt'[w].pc = "done" /\ opt'[w].feedback # {})]

\* lines 266-292: session, feedback query, the no-feedback return, the counts
OptStart(w, acquire, lookup) ==
    /\ opt[w].pc \in {"idle", "done"}
    /\ LET feedback == DecisionsWithFeedback
           started == [IdleTask EXCEPT !.queried = TRUE, !.feedback = feedback,
                                       !.good = CountFeedback(feedback, "GOOD")]
       IN  opt' = [opt EXCEPT ![w] =
              IF acquire = "raises"
                THEN [IdleTask EXCEPT !.pc = "done", !.result = "error"]
              ELSE IF NothingToLearn(feedback)
                THEN [started EXCEPT !.pc = "done", !.result = "success"]
              ELSE IF lookup = "raises"
                THEN [started EXCEPT !.pc = "done", !.result = "error"]
              ELSE [started EXCEPT !.pc = "read_active",
                                   !.positive = CountFeedback(feedback, "POSITIVE"),
                                   !.negative = CountFeedback(feedback, "NEGATIVE")]]
    /\ UNCHANGED <<envVars, decisions, contexts, now, params, analysis, execVars>>
    /\ hist' = HistAfter(w)

OptReadActive_first(w) ==
    /\ opt[w].pc = "read_active"
    /\ opt' = [opt EXCEPT ![w] =
          IF ActiveContexts = {}
            THEN [@ EXCEPT !.pc = "commit", !.active = 0]
          ELSE [@ EXCEPT !.pc = "commit",
                         !.active = CHOOSE i \in ActiveContexts : TRUE]]
    /\ UNCHANGED <<envVars, decisions, contexts, now, params, analysis, execVars>>
    /\ hist' = HistAfter(w)

\* lines 294-298: scalar_one_or_none raises when several rows are active
\* (active -1 records that MultipleResultsFound)
OptReadActive(w) ==
    /\ opt[w].pc = "read_active"
    /\ opt' = [opt EXCEPT ![w] =
          IF Cardinality(ActiveContexts) > 1
            THEN [@ EXCEPT !.pc = "done", !.result = "error", !.active = -1]
          ELSE IF ActiveContexts = {}
            THEN [@ EXCEPT !.pc = "commit", !.active = 0]
          ELSE [@ EXCEPT !.pc = "commit",
                         !.active = CHOOSE i \in ActiveContexts : TRUE]]
    /\ UNCHANGED <<envVars, decisions, contexts, now, params, analysis, execVars>>
    /\ hist' = HistAfter(w)

\* lines 291-309: new_learning_params from the counts
NewLearningParams(positive, total) ==
    LET accuracy == AccuracyRate(positive, total)
    IN  [confidence_threshold |-> ConfidenceThreshold(accuracy),
         risk_adjustment |-> RiskAdjustment(accuracy)]

\* lines 304-331: the row the task builds
NewContext(task) ==
    LET total == Cardinality(task.feedback)
        accuracy == AccuracyRate(task.positive, total)
        new_learning_params == NewLearningParams(task.positive, total)
    IN  [version |-> IF task.active # 0 THEN contexts[task.active].version + 1 ELSE 1,
         confidence_threshold |-> new_learning_params.confidence_threshold,
         risk_adjustment |-> new_learning_params.risk_adjustment,
         total_feedback |-> total,
         positive_feedback |-> task.positive,
         negative_feedback |-> task.negative,
         accuracy_rate |-> accuracy,
         is_active |-> TRUE]

\* a commit that fails after the deactivation has reached the table
OptCommit_partial(w, committed) ==
    /\ opt[w].pc = "commit"
    /\ Len(contexts) < MaxContexts
    /\ IF committed
         THEN /\ contexts' = Append(
                    IF opt[w].active # 0
                      THEN [contexts EXCEPT ![opt[w].active].is_active = FALSE]
                      ELSE contexts,
                    NewContext(opt[w]))
              /\ opt' = [opt EXCEPT ![w].pc = "done", ![w].result = "success",
                                    ![w].created = Len(contexts) + 1]
         ELSE /\ contexts' = IF opt[w].active # 0
                               THEN [contexts EXCEPT ![opt[w].active].is_active = FALSE]
                               ELSE contexts
              /\ opt' = [opt EXCEPT ![w].pc = "done", ![w].result = "error"]
    /\ hist' = HistAfter(w)
    /\ UNCHANGED <<envVars, decisions, now, params, analysis, execVars>>

\* lines 300-302 and 333-334: the flush deactivates the row that was read and
\* inserts the new one in one transaction; a failed commit rolls both back
OptCommit(w, committed) ==
    /\ opt[w].pc = "commit"
    /\ Len(contexts) < MaxContexts
    /\ IF committed
         THEN /\ contexts' = Append(
                    IF opt[w].active # 0
                      THEN [contexts EXCEPT ![opt[w].active].is_active = FALSE]
                      ELSE contexts,
                    NewContext(opt[w]))
              /\ opt' = [opt EXCEPT ![w].pc = "done", ![w].result = "success",
                                    ![w].created = Len(contexts) + 1]
         ELSE /\ contexts' = contexts
              /\ opt' = [opt EXCEPT ![w].pc = "done", ![w].result = "error"]
    /\ hist' = HistAfter(w)
    /\ UNCHANGED <<envVars, decisions, now, params, analysis, execVars>>

-----------------------------------------------------------------------------
(* services/tasks.py: execute_etrade_trades *)

IdleExec ==
    [pc |-> "idle", run |-> 0, batch |-> <<>>, i |-> 0, quantity |-> 0,
     fetch |-> NoValue, placed |-> FALSE, trades_executed |-> 0, result |-> NoValue]

\* a query for the decisions to execute that has no where clause
Eligible_all == 1..Len(decisions)

\* the where clause of the query for decisions to execute
Eligible ==
    {id \in 1..Len(decisions) \ deleted :
        /\ decisions[id].confidence_score >= GetAIConfidenceThreshold
        /\ decisions[id].executed_at = 0
        /\ decisions[id].decision_type \in {"BUY", "SELL"}}

\* order_by(created_at.desc()).limit(5): every result list the database may
\* return; rows with equal created_at come in any order
Batches ==
    LET k == Min(BatchLimit, Cardinality(Eligible))
    IN  {b \in [1..k -> Eligible] :
            /\ \A m, n \in 1..k : m < n =>
                  (b[m] # b[n] /\ decisions[b[m]].created_at >= decisions[b[n]].created_at)
            /\ \A id \in Eligible : \A m \in 1..k :
                  (\A n \in 1..k : b[n] # id) =>
                      decisions[id].created_at <= decisions[b[m]].created_at}

\* accounts[0].get("accountIdKey", ""), "" also when the list is empty
AccountIdKey == IF accounts = <<>> THEN "" ELSE accounts[1]

FindPosition_any(symbol) == IF portfolio = <<>> THEN 0 ELSE 1

\* the loops over AccountPortfolio / Position: the index of the first position
\* whose symbolDescription is the symbol, 0 when there is none
FindPosition(symbol) ==
    LET found == {k \in 1..Len(portfolio) : portfolio[k].symbolDescription = symbol}
    IN  IF found = {} THEN 0 ELSE CHOOSE k \in found : \A m \in found : k <= m

\* int(position.get("quantity", 0)) of a non-negative quantity in half shares
IntShares(half_shares) == half_shares \div 2

\* quantity = min(quantity, int(position.get("quantity", 0)))
ClampQuantity(quantity, position) == Min(quantity, IntShares(position.quantity))

-----------------------------------------------------------------------------
(* services/etrade_order_service.py: the requests a call sends.  A request is
   logged with who sent it (origin: the task, its run and the decision, or the
   web API), with what the broker answered (response) and, for a Preview that
   returned, the preview id the broker issued: the n-th request the broker
   receives gets preview id n. *)

\* data["PreviewOrderResponse"] of a Preview the broker answers now
PreviewOrderResponse(response) ==
    IF response = "returns"
      THEN [PreviewIds |-> <<[previewId |-> Len(requests) + 1]>>]
      ELSE [PreviewIds |-> <<>>]

ExtractPreviewId_stale(preview_response) == 1

\* preview_response["PreviewIds"][0]["previewId"]
ExtractPreviewId(preview_response) == preview_response.PreviewIds[1].previewId

\* preview_equity_order: the PreviewOrderRequest it posts
PreviewRequest(origin, order, client_order_id, response) ==
    [kind |-> "preview", worker |-> origin.worker, run |-> origin.run,
     decision |-> origin.decision, symbol |-> order.symbol,
     order_action |-> order.order_action, quantity |-> order.quantity,
     client_order_id |-> client_order_id, response |-> response,
     preview_id |-> IF response = "returns" THEN Len(requests) + 1 ELSE 0]

\* place_equity_order: the PlaceOrderRequest it posts (no clientOrderId in it)
PlaceRequest(origin, order, preview_id, response) ==
    [kind |-> "place", worker |-> origin.worker, run |-> origin.run,
     decision |-> origin.decision, symbol |-> order.symbol,
     order_action |-> order.order_action, quantity |-> order.quantity,
     client_order_id |-> 0, response |-> response, preview_id |-> preview_id]

\* place_equity_order: it previews, extracts the preview id and places
PlaceEquityOrder(origin, order, client_order_id, response) ==
    LET answer == IF response = "preview_raises" THEN "raises"
                  ELSE IF response = "no_preview_id" THEN "no_preview_id"
                  ELSE "returns"
        preview == PreviewRequest(origin, order, client_order_id, answer)
        preview_response == PreviewOrderResponse(answer)
    IN  IF answer # "returns" THEN <<preview>>
        ELSE <<preview,
               PlaceRequest(origin, order, ExtractPreviewId(preview_response),
                            IF response = "placed" THEN "returns" ELSE "raises")>>

-----------------------------------------------------------------------------
(* services/tasks.py: execute_etrade_trades, the task *)

\* symbol, order_action and quantity of the decision task w is processing
TaskOrder(w) ==
    LET id == exec[w].batch[exec[w].i]
    IN  [symbol |-> decisions[id].symbol,
         order_action |-> IF decisions[id].decision_type = "BUY" THEN "BUY" ELSE "SELL",
         quantity |-> exec[w].quantity]

TaskOrigin(w) ==
    [worker |-> w, run |-> exec[w].run, decision |-> exec[w].batch[exec[w].i]]

\* history: how the decision being processed ended, with what get_portfolio did
\* and whether place_equity_order had returned
Outcome(w, outcome, fetch) ==
    [worker |-> w, run |-> exec[w].run, index |-> exec[w].i,
     decision |-> exec[w].batch[exec[w].i],
     fetch |-> fetch, placed |-> exec[w].placed, outcome |-> outcome,
     operation |-> "execute_etrade_trades", session |-> authenticated]

NextDecision_stop(task) == [task EXCEPT !.pc = "done", !.result = "success"]

\* the end of one iteration of the loop: the next decision, or lines 617-621
NextDecision(task) ==
    IF task.i < Len(task.batch)
      THEN [task EXCEPT !.pc = "decide", !.i = task.i + 1, !.quantity = 0,
                        !.fetch = NoValue, !.placed = FALSE]
      ELSE [task EXCEPT !.pc = "done", !.result = "success"]

\* lines 498-553: the checks before the loop, the query and the order service
ExecStart(w, acquire, listing, binding) ==
    /\ exec[w].pc \in {"idle", "done"}
    /\ exec[w].run < MaxRuns
    /\ LET started == [IdleExec EXCEPT !.run = exec[w].run + 1]
           ended(result) == [started EXCEPT !.pc = "done", !.result = result]
       IN  \/ /\ \/ ~authenticated
                 \/ ~config.auto_trading
                 \/ acquire = "session" /\ ~has_prefs
                 \/ /\ acquire = "session" /\ has_prefs /\ listing = "accounts"
                    /\ AccountIdKey = ""
              /\ exec' = [exec EXCEPT ![w] = ended("skipped")]
           \/ /\ authenticated /\ config.auto_trading
              /\ \/ acquire = "raises"
                 \/ has_prefs /\ listing = "raises"
              /\ exec' = [exec EXCEPT ![w] = ended("error")]
           \/ /\ authenticated /\ config.auto_trading /\ acquire = "session"
              /\ has_prefs /\ listing = "accounts"
              /\ AccountIdKey # ""
              /\ \E batch \in Batches :
                    exec' = [exec EXCEPT ![w] =
                                IF batch = <<>> THEN ended("success")
                                ELSE IF binding = "raises" THEN ended("error")
                                ELSE [started EXCEPT !.pc = "decide", !.batch = batch,
                                                     !.i = 1]]
    /\ UNCHANGED <<envVars, decisions, now, learnVars, params, analysis, requests, outcomes>>

\* lines 557-582: the order parameters, and for a SELL the position check
ExecDecide(w, fetch) ==
    /\ exec[w].pc = "decide"
    /\ LET decision == decisions[exec[w].batch[exec[w].i]]
           found == FindPosition(decision.symbol)
       IN  IF decision.decision_type = "BUY"
             THEN /\ fetch = NoValue
                  /\ exec' = [exec EXCEPT ![w].pc = "preview",
                                          ![w].quantity = RequestedQuantity]
                  /\ outcomes' = outcomes
           ELSE IF fetch = "raises"
             THEN /\ exec' = [exec EXCEPT ![w] = NextDecision(exec[w])]
                  /\ outcomes' = Append(outcomes, Outcome(w, "failed", fetch))
           ELSE IF found = 0
             THEN /\ fetch = "portfolio"
                  /\ exec' = [exec EXCEPT ![w] = NextDecision(exec[w])]
                  /\ outcomes' = Append(outcomes, Outcome(w, "skipped", fetch))
           ELSE /\ fetch = "portfolio"
                /\ exec' = [exec EXCEPT ![w].pc = "preview", ![w].fetch = fetch,
                              ![w].quantity = ClampQuantity(RequestedQuantity,
                                                            portfolio[found])]
                /\ outcomes' = outcomes
    /\ UNCHANGED <<envVars, decisions, now, learnVars, params, analysis, requests>>

\* lines 584-591: preview_equity_order sends the request, then returns or
\* raises; what it returns is not used
ExecPreview(w, client_order_id, response) ==
    /\ exec[w].pc = "preview"
    /\ requests' = Append(requests,
          PreviewRequest(TaskOrigin(w), TaskOrder(w), client_order_id, response))
    /\ IF response = "raises"
         THEN /\ exec' = [exec EXCEPT ![w] = NextDecision(exec[w])]
              /\ outcomes' = Append(outcomes, Outcome(w, "failed", exec[w].fetch))
         ELSE /\ exec' = [exec EXCEPT ![w].pc = "place"]
              /\ outcomes' = outcomes
    /\ UNCHANGED <<envVars, decisions, now, learnVars, params, analysis>>

\* lines 593-600: place_equity_order
ExecPlace(w, client_order_id, response) ==
    /\ exec[w].pc = "place"
    /\ requests' = requests \o
          PlaceEquityOrder(TaskOrigin(w), TaskOrder(w), client_order_id, response)
    /\ IF response = "placed"
         THEN /\ exec' = [exec EXCEPT ![w].pc = "commit", ![w].placed = TRUE]
              /\ outcomes' = outcomes
         ELSE /\ exec' = [exec EXCEPT ![w] = NextDecision(exec[w])]
              /\ outcomes' = Append(outcomes, Outcome(w, "failed", exec[w].fetch))
    /\ UNCHANGED <<envVars, decisions, now, learnVars, params, analysis>>

\* lines 602-609: executed_at, the commit, the counter
ExecCommit(w, committed) ==
    /\ exec[w].pc = "commit"
    /\ IF committed
         THEN /\ decisions' = [decisions EXCEPT
                                  ![exec[w].batch[exec[w].i]].executed_at = now]
              /\ exec' = [exec EXCEPT ![w] =
                            NextDecision([exec[w] EXCEPT !.trades_executed = @ + 1])]
              /\ outcomes' = Append(outcomes, Outcome(w, "executed", exec[w].fetch))
         ELSE /\ decisions' = decisions
              /\ exec' = [exec EXCEPT ![w] = NextDecision(exec[w])]
              /\ outcomes' = Append(outcomes, Outcome(w, "failed", exec[w].fetch))
    /\ UNCHANGED <<envVars, now, learnVars, params, analysis, requests>>

\* lines 617-621: the task returns its result; the worker is free for the next
\* message of the schedule and keeps nothing of the run
ExecReturn(w) ==
    /\ exec[w].pc = "done"
    /\ exec' = [exec EXCEPT ![w] = IdleExec]
    /\ requests' = <<>>
    /\ outcomes' = <<>>
    /\ UNCHANGED <<envVars, decisions, now, learnVars, params, analysis>>

\* celery beat sends execute_etrade_trades every 30 minutes: a run that starts
\* when no other run is in progress
SerialStart(w, acquire, listing, binding) ==
    /\ \A v \in Workers \ {w} : exec[v].pc \in {"idle", "done"}
    /\ ExecStart(w, acquire, listing, binding)

-----------------------------------------------------------------------------
(* web/main.py: the order endpoints.  A call is logged with origin "api" and
   its number as the run. *)

ApiCalls == {requests[n].run : n \in {k \in 1..Len(requests) : requests[k].worker = "api"}}

ApiOrigin == [worker |-> "api", run |-> Cardinality(ApiCalls) + 1, decision |-> 0]

\* preview_etrade_order
ApiPreviewOrder(order, client_order_id, response, limit) ==
    /\ authenticated
    /\ Cardinality(ApiCalls) < limit
    /\ requests' = Append(requests,
          PreviewRequest(ApiOrigin, order, client_order_id, response))
    /\ UNCHANGED <<envVars, decisions, now, learnVars, params, analysis, exec, outcomes>>

\* place_etrade_order
ApiPlaceOrder(order, client_order_id, response, limit) ==
    /\ authenticated
    /\ Cardinality(ApiCalls) < limit
    /\ requests' = requests \o
          PlaceEquityOrder(ApiOrigin, order, client_order_id, response)
    /\ UNCHANGED <<envVars, decisions, now, learnVars, params, analysis, exec, outcomes>>

-----------------------------------------------------------------------------
(* services/etrade_account_service.py and services/etrade_order_service.py:
   the seven broker operations, called directly.  Each call is logged in
   outcomes with the session it found; its requests carry its number as run. *)

BrokerOperations ==
    {"get_account_list", "get_account_balance", "get_portfolio",
     "preview_equity_order", "place_equity_order", "get_order_list", "cancel_order"}

IsAuthenticated_always(session) == TRUE

\* etrade_auth.py 97-99: self.session is not None
IsAuthenticated(session) == session

\* the GET or PUT of an operation that is no order
ServiceRequest(operation, origin, response) ==
    [kind |-> operation, worker |-> origin.worker, run |-> origin.run,
     decision |-> origin.decision, symbol |-> NoValue, order_action |-> NoValue,
     quantity |-> 0, client_order_id |-> 0, response |-> response, preview_id |-> 0]

\* the requests an operation sends once its session check has passed
OperationRequests(operation, origin, order, client_order_id, response) ==
    IF operation = "preview_equity_order"
    THEN <<PreviewRequest(origin, order, client_order_id, response)>>
    ELSE IF operation = "place_equity_order"
    THEN PlaceEquityOrder(origin, order, client_order_id,
                          IF response = "returns" THEN "placed" ELSE "place_raises")
    ELSE <<ServiceRequest(operation, origin, response)>>

\* one call of a broker operation
BrokerCall(operation, order, client_order_id, response) ==
    /\ Len(outcomes) < MaxBrokerCalls
    /\ LET origin == [worker |-> "api", run |-> Len(outcomes) + 1, decision |-> 0]
           passed == IsAuthenticated(authenticated)
           outcome == IF ~passed THEN "precondition_error"
                      ELSE IF response = "returns" THEN "returned" ELSE "raised"
       IN  /\ requests' = IF passed
                          THEN requests \o OperationRequests(operation, origin, order,
                                                             client_order_id, response)
                          ELSE requests
           /\ outcomes' = Append(outcomes,
                  [worker |-> origin.worker, run |-> origin.run, index |-> 0,
                   decision |-> 0, fetch |-> NoValue, placed |-> FALSE,
                   outcome |-> outcome, operation |-> operation,
                   session |-> authenticated])
    /\ UNCHANGED <<envVars, decisions, now, learnVars, params, analysis, exec>>

\* etrade_auth.py 72-95, 145-170: complete_oauth or load_credentials sets the session
CompleteOAuth ==
    /\ ~authenticated
    /\ authenticated' = TRUE
    /\ UNCHANGED <<config, model, has_prefs, auto_trading_enabled, accounts, portfolio,
                   deleted, decisions, now, learnVars, params, analysis, execVars>>

-----------------------------------------------------------------------------
(* Sentiment analysis: services/ai_trading_service.py 44-104 and 217-249,
   services/market_data_service.py 265-310.

   A Python float is a pair <<n, d>>: the fraction n / d when d > 0, and
   <<1, 0>>, <<-1, 0>>, <<0, 0>> for inf, -inf and nan.  A str is the sequence
   of its characters, so that "word in text" is a search for a subsequence. *)

NaN == <<0, 0>>

Infinity == <<1, 0>>

MinusInfinity == <<-1, 0>>

Float(n, d) == <<n, d>>

IsNaN(a) == a = NaN

IsFinite(a) == a[2] > 0

Abs(n) == IF n < 0 THEN -n ELSE n

RECURSIVE GCD(_, _)
GCD(a, b) == IF b = 0 THEN a ELSE GCD(b, a % b)

\* the same float, in lowest terms
Reduce(a) ==
    IF a[2] = 0 THEN a
    ELSE LET g == GCD(Abs(a[1]), a[2]) IN <<a[1] \div g, a[2] \div g>>

\* a < b on floats: False as soon as one side is nan
FloatLt(a, b) ==
    IF IsNaN(a) \/ IsNaN(b) THEN FALSE
    ELSE IF a[2] = 0 /\ b[2] = 0 THEN a[1] < b[1]
    ELSE IF a[2] = 0 THEN a[1] < 0
    ELSE IF b[2] = 0 THEN b[1] > 0
    ELSE a[1] * b[2] < b[1] * a[2]

\* a + b on floats
FloatAdd(a, b) ==
    IF IsNaN(a) \/ IsNaN(b) THEN NaN
    ELSE IF a[2] = 0 /\ b[2] = 0 THEN (IF a = b THEN a ELSE NaN)
    ELSE IF a[2] = 0 THEN a
    ELSE IF b[2] = 0 THEN b
    ELSE Reduce(<<a[1] * b[2] + b[1] * a[2], a[2] * b[2]>>)

\* a * b on floats, b finite and positive
FloatMul(a, b) == IF a[2] = 0 THEN a ELSE Reduce(<<a[1] * b[1], a[2] * b[2]>>)

\* a / b on floats, b finite and positive
FloatDiv(a, b) == IF a[2] = 0 THEN a ELSE Reduce(<<a[1] * b[2], a[2] * b[1]>>)

\* the builtins min(a, b) and max(a, b): the first argument is kept unless the
\* second compares strictly below (above) it
PyMin(a, b) == IF FloatLt(b, a) THEN b ELSE a

PyMax(a, b) == IF FloatLt(a, b) THEN b ELSE a

ClampScore_none(sentiment_score) == sentiment_score

\* max(-1.0, min(1.0, sentiment_score))
ClampScore(sentiment_score) == PyMax(Float(-1, 1), PyMin(Float(1, 1), sentiment_score))

\* str.lower(), on the letters
LowerChar(c) ==
    CASE c = "A" -> "a"
      [] c = "B" -> "b"
      [] c = "C" -> "c"
      [] c = "D" -> "d"
      [] c = "E" -> "e"
      [] c = "F" -> "f"
      [] c = "G" -> "g"
      [] c = "H" -> "h"
      [] c = "I" -> "i"
      [] c = "J" -> "j"
      [] c = "K" -> "k"
      [] c = "L" -> "l"
      [] c = "M" -> "m"
      [] c = "N" -> "n"
      [] c = "O" -> "o"
      [] c = "P" -> "p"
      [] c = "Q" -> "q"
      [] c = "R" -> "r"
      [] c = "S" -> "s"
      [] c = "T" -> "t"
      [] c = "U" -> "u"
      [] c = "V" -> "v"
      [] c = "W" -> "w"
      [] c = "X" -> "x"
      [] c = "Y" -> "y"
      [] c = "Z" -> "z"
      [] OTHER -> c

Lower(text) == [i \in 1..Len(text) |-> LowerChar(text[i])]

\* word in text
Occurs(word, text) ==
    \E i \in 0..(Len(text) - Len(word)) : SubSeq(text, i + 1, i + Len(word)) = word

\* sep.join(items)
RECURSIVE Join(_, _)
Join(sep, items) ==
    IF items = <<>> THEN <<>>
    ELSE IF Len(items) = 1 THEN items[1]
    ELSE items[1] \o sep \o Join(sep, Tail(items))

\* sum(1 for word in words if word in text)
RECURSIVE CountWords(_, _)
CountWords(words, text) ==
    IF words = <<>> THEN 0
    ELSE (IF Occurs(Head(words), text) THEN 1 ELSE 0) + CountWords(Tail(words), text)

\* ai_trading_service.py 233-234
positive_words ==
    <<
      <<"u", "p">>, <<"g", "a", "i", "n">>, <<"r", "i", "s", "e">>, <<"b", "u", "l", "l">>,
      <<"p", "o", "s", "i", "t", "i", "v", "e">>, <<"s", "t", "r", "o", "n", "g">>, <<"g", "r", "o", "w", "t", "h">>
    >>

negative_words ==
    <<
      <<"d", "o", "w", "n">>, <<"f", "a", "l", "l">>, <<"d", "r", "o", "p">>, <<"b", "e", "a", "r">>,
      <<"n", "e", "g", "a", "t", "i", "v", "e">>, <<"w", "e", "a", "k">>, <<"d", "e", "c", "l", "i", "n", "e">>
    >>

\* market_data_service.py 274-284
positive_keywords ==
    <<
      <<"b", "e", "a", "t", "s">>, <<"e", "x", "c", "e", "e", "d", "s">>, <<"s", "t", "r", "o", "n", "g">>,
      <<"g", "r", "o", "w", "t", "h">>, <<"r", "i", "s", "e">>, <<"g", "a", "i", "n">>,
      <<"u", "p">>, <<"b", "u", "l", "l">>, <<"p", "o", "s", "i", "t", "i", "v", "e">>,
      <<"o", "u", "t", "p", "e", "r", "f", "o", "r", "m">>, <<"u", "p", "g", "r", "a", "d", "e">>, <<"b", "u", "y">>,
      <<"b", "u", "l", "l", "i", "s", "h">>, <<"r", "a", "l", "l", "y">>, <<"s", "u", "r", "g", "e">>,
      <<"j", "u", "m", "p">>, <<"s", "o", "a", "r">>, <<"b", "o", "o", "s", "t">>,
      <<"o", "p", "t", "i", "m", "i", "s", "t", "i", "c">>
    >>

negative_keywords ==
    <<
      <<"m", "i", "s", "s", "e", "s">>, <<"f", "a", "l", "l", "s">>, <<"d", "e", "c", "l", "i", "n", "e">>,
      <<"d", "r", "o", "p">>, <<"d", "o", "w", "n">>, <<"b", "e", "a", "r">>,
      <<"n", "e", "g", "a", "t", "i", "v", "e">>, <<"u", "n", "d", "e", "r", "p", "e", "r", "f", "o", "r", "m">>, <<"d", "o", "w", "n", "g", "r", "a", "d", "e">>,
      <<"s", "e", "l", "l">>, <<"b", "e", "a", "r", "i", "s", "h">>, <<"c", "r", "a", "s", "h">>,
      <<"p", "l", "u", "n", "g", "e">>, <<"t", "u", "m", "b", "l", "e">>, <<"s", "l", "u", "m", "p">>,
      <<"c", "o", "n", "c", "e", "r", "n">>, <<"w", "o", "r", "r", "y">>, <<"r", "i", "s", "k">>,
      <<"p", "e", "s", "s", "i", "m", "i", "s", "t", "i", "c">>
    >>

(* A value a dict holds under a key: absent, None, a float or a str. *)
Value(type, float, str) == [type |-> type, float |-> float, str |-> str]

Missing == Value("missing", NaN, "")

\* float(str), on the strings the model draws
ParseFloat(str) ==
    CASE str = "2.5" -> [raised |-> FALSE, float |-> Float(5, 2)]
      [] str = "nan" -> [raised |-> FALSE, float |-> NaN]
      [] OTHER -> [raised |-> TRUE, float |-> NaN]

\* float(value): TypeError on None, ValueError on a str that is not a number
PyFloat(value) ==
    CASE value.type = "float" -> [raised |-> FALSE, float |-> value.float]
      [] value.type = "str" -> ParseFloat(value.str)
      [] OTHER -> [raised |-> TRUE, float |-> NaN]

NoResult ==
    [status |-> NoValue, path |-> NoValue, sentiment_score |-> NaN,
     positive_count |-> 0, negative_count |-> 0]

Raised == [NoResult EXCEPT !.status = "raised", !.path = "fallback"]

NewsWeight_one == Float(1, 1)

\* line 240: news_sentiment * 0.3
NewsWeight == Float(3, 10)

\* ai_trading_service.py 217-249.  market_data is the value under
\* 'change_percent' (Missing when the key is absent).
FallbackSentimentAnalysis(market_data, news_summaries) ==
    LET change_pct == PyFloat(market_data)
        priced == IF market_data.type = "missing" THEN Float(0, 1)
                  ELSE FloatAdd(Float(0, 1), FloatDiv(change_pct.float, Float(100, 1)))
        news_text == Lower(Join(<<" ">>, news_summaries))
        positive_count == CountWords(positive_words, news_text)
        negative_count == CountWords(negative_words, news_text)
        news_sentiment == Float(positive_count - negative_count,
                                positive_count + negative_count)
        sentiment_score ==
            IF positive_count + negative_count > 0
            THEN FloatAdd(priced, FloatMul(news_sentiment, NewsWeight))
            ELSE priced
    IN  IF market_data.type # "missing" /\ change_pct.raised THEN Raised
        ELSE [status |-> "returned", path |-> "fallback",
              sentiment_score |-> ClampScore(sentiment_score),
              positive_count |-> positive_count, negative_count |-> negative_count]

\* ai_trading_service.py 44-104.  response is what generate_content and
\* json.loads give: kind "raises" (the call raises or times out), "unparsable"
\* (json.loads raises), "not_object" (JSON that is no object: result.get
\* raises) or "object" with the value under 'sentiment_score'.
AnalyzeMarketSentimentResult(has_model, market_data, news_summaries, response) ==
    LET fallback == FallbackSentimentAnalysis(market_data, news_summaries)
        sentiment_score ==
            IF response.sentiment_score.type = "missing"
            THEN [raised |-> FALSE, float |-> Float(0, 1)]
            ELSE PyFloat(response.sentiment_score)
    IN  IF ~has_model THEN fallback
        ELSE IF response.kind # "object" \/ sentiment_score.raised THEN fallback
        ELSE [status |-> "returned", path |-> "backend",
              sentiment_score |-> ClampScore(sentiment_score.float),
              positive_count |-> 0, negative_count |-> 0]

\* market_data_service.py 296-297: max(0.1, 1.0 - (age_hours / 72))
HeadlineWeight(age_hours) ==
    PyMax(Float(1, 10), FloatAdd(Float(1, 1), Float(-age_hours, 72)))

\* market_data_service.py 289-302: the loop over the headlines, giving
\* <<total_score, total_weight>>
RECURSIVE WeighHeadlines(_, _, _)
WeighHeadlines(headlines, total_score, total_weight) ==
    IF headlines = <<>> THEN <<total_score, total_weight>>
    ELSE LET headline == Head(headlines)
             text == Lower(headline.title \o <<" ">> \o headline.summary)
             positive_count == CountWords(positive_keywords, text)
             negative_count == CountWords(negative_keywords, text)
             weight == HeadlineWeight(headline.age_hours)
             headline_sentiment == Float(positive_count - negative_count,
                                         positive_count + negative_count)
         IN  IF positive_count + negative_count > 0
             THEN WeighHeadlines(Tail(headlines),
                                 FloatAdd(total_score, FloatMul(headline_sentiment, weight)),
                                 FloatAdd(total_weight, weight))
             ELSE WeighHeadlines(Tail(headlines), total_score, total_weight)

\* market_data_service.py 265-310
AnalyzeNewsSentiment(headlines) ==
    LET totals == WeighHeadlines(headlines, Float(0, 1), Float(0, 1))
        final_sentiment ==
            IF FloatLt(Float(0, 1), totals[2]) THEN FloatDiv(totals[1], totals[2])
            ELSE Float(0, 1)
    IN  [NoResult EXCEPT !.status = "returned", !.path = "batch",
                         !.sentiment_score = ClampScore(final_sentiment)]

-----------------------------------------------------------------------------
(* The text of a rationale (ai_trading_service.py 171-215 and 261-292).  A
   confidence or sentiment is a number of hundredths, as in the decision
   engine above; the text is the sequence of its characters. *)

Digit(n) ==
    CASE n = 0 -> "0" [] n = 1 -> "1" [] n = 2 -> "2" [] n = 3 -> "3" [] n = 4 -> "4"
      [] n = 5 -> "5" [] n = 6 -> "6" [] n = 7 -> "7" [] n = 8 -> "8" [] OTHER -> "9"

\* str(n), n >= 0
RECURSIVE FormatInt(_)
FormatInt(n) == IF n < 10 THEN <<Digit(n)>> ELSE FormatInt(n \div 10) \o <<Digit(n % 10)>>

Sign(hundredths) == IF hundredths < 0 THEN <<"-">> ELSE <<>>

\* f"{x:.2f}"
Format2f(hundredths) ==
    LET a == Abs(hundredths)
    IN  Sign(hundredths) \o FormatInt(a \div 100) \o <<".">>
            \o <<Digit((a % 100) \div 10), Digit(a % 10)>>

\* f"{x}", the repr of a float: the shortest decimal, one digit at least
FormatFloat(hundredths) ==
    LET a == Abs(hundredths)
    IN  Sign(hundredths) \o FormatInt(a \div 100) \o <<".">>
            \o (IF a % 10 = 0 THEN <<Digit((a % 100) \div 10)>>
                ELSE <<Digit((a % 100) \div 10), Digit(a % 10)>>)

\* lines 263-278 and 283-285
FallbackRationale(sentiment_score, threshold) ==
    LET raw == FallbackRaw(sentiment_score)
        confidence == IF raw = "HOLD" THEN FallbackHoldConfidence ELSE FallbackConfidence
    IN  <<"F", "a", "l", "l", "b", "a", "c", "k", " ", "a", "n", "a", "l", "y", "s", "i", "s", ":", " ">>
        \o (IF raw = "BUY"
            THEN <<"P", "o", "s", "i", "t", "i", "v", "e", " ", "s", "e", "n", "t", "i", "m", "e", "n", "t", " ", "(">>
                     \o Format2f(sentiment_score) \o <<")">>
            ELSE IF raw = "SELL"
            THEN <<"N", "e", "g", "a", "t", "i", "v", "e", " ", "s", "e", "n", "t", "i", "m", "e", "n", "t", " ", "(">>
                     \o Format2f(sentiment_score) \o <<")">>
            ELSE <<"N", "e", "u", "t", "r", "a", "l", " ", "s", "e", "n", "t", "i", "m", "e", "n", "t", " ", "(">>
                     \o Format2f(sentiment_score)
                     \o <<")", ",", " ", "h", "o", "l", "d", "i", "n", "g", " ", "p", "o", "s", "i", "t", "i", "o", "n">>)
        \o (IF BelowThreshold(confidence, threshold)
            THEN <<" ", "(", "B", "e", "l", "o", "w", " ", "c", "o", "n", "f", "i", "d", "e", "n", "c", "e", " ", "t", "h", "r", "e", "s", "h", "o", "l", "d", ")">>
            ELSE <<>>)

\* lines 194-197
BackendRationale(rationale, confidence, threshold) ==
    rationale
        \o (IF BelowThreshold(confidence, threshold)
            THEN <<" ", "(", "C", "o", "n", "f", "i", "d", "e", "n", "c", "e", " ", "b", "e", "l", "o", "w", " ", "t", "h", "r", "e", "s", "h", "o", "l", "d", ":", " ">>
                     \o FormatFloat(confidence) \o <<")">>
            ELSE <<>>)

\* the characters of the strings the model draws for 'rationale'
Chars(str) ==
    CASE str = "Strong momentum" -> <<"S", "t", "r", "o", "n", "g", " ", "m", "o", "m", "e", "n", "t", "u", "m">>
      [] OTHER -> <<>>

\* line 181: result.get('rationale', 'No rationale provided')
RationaleText(value) ==
    IF value.type = "missing" THEN <<"N", "o", " ", "r", "a", "t", "i", "o", "n", "a", "l", "e", " ", "p", "r", "o", "v", "i", "d", "e", "d">>
    ELSE Chars(value.str)

\* a float that is a whole number of hundredths
ToHundredths(float) == (float[1] * 100) \div float[2]

\* Decimal(str(price_target)) raises InvalidOperation; a price target that is
\* absent, None, 0 or '' is not converted (line 205)
PriceTargetRaises(value) == value.type = "str" /\ value.str # "" /\ ParseFloat(value.str).raised

(* lines 171-206, the try block on what the backend gave: kind "raises" when a
   statement of the block raises, "json" with the decision token and the
   confidence otherwise.  response.kind is as for analyze_market_sentiment. *)
BackendAnswer(response, threshold) ==
    LET confidence == IF response.confidence.type = "missing"
                      THEN [raised |-> FALSE, float |-> Float(0, 1)]
                      ELSE PyFloat(response.confidence)
        raises == [kind |-> "raises", decision |-> NoValue, confidence |-> 0]
    IN  IF response.kind # "object" THEN raises
        \* line 179: .upper() on a value that is no str
        ELSE IF response.decision.type \notin {"missing", "str"} THEN raises
        ELSE IF confidence.raised THEN raises
        \* line 197: rationale += on a value that is no str
        ELSE IF /\ BelowThreshold(ToHundredths(confidence.float), threshold)
                /\ response.rationale.type \notin {"missing", "str"} THEN raises
        ELSE IF PriceTargetRaises(response.price_target) THEN raises
        ELSE [kind |-> "json",
              decision |-> IF response.decision.type = "missing" THEN "HOLD"
                           ELSE response.decision.str,
              confidence |-> ToHundredths(confidence.float)]

NoDecision ==
    [status |-> NoValue, path |-> NoValue, decision_type |-> NoValue, raw |-> NoValue,
     confidence_score |-> 0, rationale |-> <<>>]

\* the AIDecision the fallback path returns
FallbackTradingDecision(sentiment_score, threshold) ==
    LET d == FallbackDecision(sentiment_score, threshold)
    IN  [status |-> "returned", path |-> d.path, decision_type |-> d.decision_type,
         raw |-> d.raw, confidence_score |-> d.confidence_score,
         rationale |-> FallbackRationale(sentiment_score, threshold)]

GenerateTradingDecisionResult_surfacing(has_model, response, sentiment_score, threshold) ==
    LET answer == BackendAnswer(response, threshold)
        d == BackendDecision(answer, threshold)
    IN  IF ~has_model THEN FallbackTradingDecision(sentiment_score, threshold)
        ELSE IF answer.kind = "raises" THEN [NoDecision EXCEPT !.status = "raised"]
        ELSE [status |-> "returned", path |-> d.path, decision_type |-> d.decision_type,
              raw |-> d.raw, confidence_score |-> d.confidence_score,
              rationale |-> BackendRationale(RationaleText(response.rationale),
                                             answer.confidence, threshold)]

\* generate_trading_decision, lines 106-215, on what the backend gave
GenerateTradingDecisionResult(has_model, response, sentiment_score, threshold) ==
    LET answer == BackendAnswer(response, threshold)
        d == BackendDecision(answer, threshold)
    IN  IF ~has_model THEN FallbackTradingDecision(sentiment_score, threshold)
        ELSE IF answer.kind = "raises"
        THEN FallbackTradingDecision(sentiment_score, threshold)
        ELSE [status |-> "returned", path |-> d.path, decision_type |-> d.decision_type,
              raw |-> d.raw, confidence_score |-> d.confidence_score,
              rationale |-> BackendRationale(RationaleText(response.rationale),
                                             answer.confidence, threshold)]

NoResponse ==
    [kind |-> "raises", sentiment_score |-> Missing, decision |-> Missing,
     confidence |-> Missing, rationale |-> Missing, price_target |-> Missing]

\* analyze_market_sentiment_batch: the symbols, what get_news_headlines and the
\* analysis of each will do (feeds), the position of the loop, sentiment_results
NoBatch == [symbols |-> <<>>, feeds |-> <<>>, i |-> 0, results |-> <<>>, status |-> NoValue]

NoAnalysis ==
    [fn |-> NoValue, has_model |-> FALSE, market_data |-> Missing,
     response |-> NoResponse, headlines |-> <<>>, result |-> NoResult,
     sentiment_score |-> 0, threshold |-> 0, decision |-> NoDecision,
     pc |-> "answered", batch |-> NoBatch]

OnSymbolFault_abort(batch, symbol) == [batch EXCEPT !.status = "raised"]

\* market_data_service.py 258-260: the handler of one symbol's exception
OnSymbolFault(batch, symbol) ==
    [batch EXCEPT !.results = (symbol :> Float(0, 1)) @@ batch.results, !.i = batch.i + 1]

\* market_data_service.py 232-260: one iteration of the loop.  feed.fault is
\* "analysis" when _analyze_news_sentiment raises, "store" when a statement
\* after line 242 raises, "none" otherwise.
AnalyzeBatchSymbol(batch) ==
    LET symbol == batch.symbols[batch.i]
        feed == batch.feeds[batch.i]
        sentiment_score == AnalyzeNewsSentiment(feed.headlines).sentiment_score
        scored == [batch EXCEPT !.results = (symbol :> sentiment_score) @@ batch.results]
    IN  IF feed.headlines = <<>>
        THEN [batch EXCEPT !.results = (symbol :> Float(0, 1)) @@ batch.results,
                           !.i = batch.i + 1]
        ELSE IF feed.fault = "analysis" THEN OnSymbolFault(batch, symbol)
        ELSE IF feed.fault = "store" THEN OnSymbolFault(scored, symbol)
        ELSE [scored EXCEPT !.i = batch.i + 1]

\* one iteration of the loop of analyze_market_sentiment_batch
BatchSymbol ==
    /\ analysis.fn = "analyze_market_sentiment_batch"
    /\ analysis.batch.status = "running"
    /\ analysis.batch.i <= Len(analysis.batch.symbols)
    /\ analysis' = [analysis EXCEPT !.batch = AnalyzeBatchSymbol(analysis.batch)]
    /\ UNCHANGED <<envVars, decisions, now, learnVars, params, execVars>>

\* lines 262-263: the commit after the loop, outside the try, and the return
BatchCommit(committed) ==
    /\ analysis.fn = "analyze_market_sentiment_batch"
    /\ analysis.batch.status = "running"
    /\ analysis.batch.i > Len(analysis.batch.symbols)
    /\ analysis' = [analysis EXCEPT !.batch.status =
                       IF committed THEN "returned" ELSE "raised"]
    /\ UNCHANGED <<envVars, decisions, now, learnVars, params, execVars>>

\* the await of asyncio.to_thread(self.model.generate_content, prompt) is over,
\* or there is no backend to call
BackendDone == ~analysis.has_model \/ analysis.pc = "answered"

\* main.py 450-452, tasks.py 656-658: the titles of the headlines
Titles(headlines) == [i \in 1..Len(headlines) |-> headlines[i].title]

\* a call of analyze_market_sentiment
AnalyzeMarketSentiment ==
    /\ analysis.fn = "analyze_market_sentiment"
    /\ BackendDone
    /\ analysis.result.status = NoValue
    /\ analysis' = [analysis EXCEPT !.result =
           AnalyzeMarketSentimentResult(analysis.has_model, analysis.market_data,
                                        Titles(analysis.headlines), analysis.response)]
    /\ UNCHANGED <<envVars, decisions, now, learnVars, params, execVars>>

\* a call of _fallback_sentiment_analysis
FallbackSentiment ==
    /\ analysis.fn = "_fallback_sentiment_analysis"
    /\ analysis.result.status = NoValue
    /\ analysis' = [analysis EXCEPT !.result =
           FallbackSentimentAnalysis(analysis.market_data, Titles(analysis.headlines))]
    /\ UNCHANGED <<envVars, decisions, now, learnVars, params, execVars>>

\* a call of _analyze_news_sentiment
NewsSentiment ==
    /\ analysis.fn = "_analyze_news_sentiment"
    /\ analysis.result.status = NoValue
    /\ analysis' = [analysis EXCEPT !.result = AnalyzeNewsSentiment(analysis.headlines)]
    /\ UNCHANGED <<envVars, decisions, now, learnVars, params, execVars>>

\* a call of generate_trading_decision
GenerateDecision ==
    /\ analysis.fn = "generate_trading_decision"
    /\ BackendDone
    /\ analysis.decision.status = NoValue
    /\ analysis' = [analysis EXCEPT !.decision =
           GenerateTradingDecisionResult(analysis.has_model, analysis.response,
                                         analysis.sentiment_score, analysis.threshold)]
    /\ UNCHANGED <<envVars, decisions, now, learnVars, params, execVars>>

\* lines 87-89 and 171-173: the call is handed to a worker thread and awaited;
\* the code sets no timeout on the await or on the request
AwaitBackend ==
    /\ analysis.fn \in {"analyze_market_sentiment", "generate_trading_decision"}
    /\ analysis.has_model
    /\ analysis.pc = "called"
    /\ analysis' = [analysis EXCEPT !.pc = "awaiting"]
    /\ UNCHANGED <<envVars, decisions, now, learnVars, params, execVars>>

\* the backend answers, or its client raises: the thread ends
BackendAnswers ==
    /\ analysis.pc = "awaiting"
    /\ analysis' = [analysis EXCEPT !.pc = "answered"]
    /\ UNCHANGED <<envVars, decisions, now, learnVars, params, execVars>>

-----------------------------------------------------------------------------
(* Specifications.  Each one starts from the state after construction: empty
   tables, no task running; the configuration file and the environment are
   drawn from the values named in its Init. *)

NoParams == [derived |-> FALSE, positive |-> 0, total |-> 0,
             confidence_threshold |-> <<0, 1>>, risk_adjustment |-> <<0, 1>>]

InitStore ==
    /\ decisions = <<>>
    /\ deleted = {}
    /\ contexts = <<>>
    /\ now = 1
    /\ opt = [w \in Workers |-> IdleTask]
    /\ hist = [fed |-> FALSE]
    /\ exec = [w \in Workers |-> IdleExec]
    /\ requests = <<>>
    /\ outcomes = <<>>

\* models.py 97: auto_trading_enabled has default True
InitRows ==
    /\ InitStore
    /\ auto_trading_enabled = TRUE

InitTables ==
    /\ InitRows
    /\ analysis = NoAnalysis

ThresholdValues == {50, DefaultThreshold}

\* what the reasoning backend is modelled to answer to generate_trading_decision
GateAnswers ==
    {[kind |-> "raises", decision |-> NoValue, confidence |-> 0]} \cup
    {[kind |-> "json", decision |-> t, confidence |-> c] :
        t \in {"buy", "SELL", "WATCH", "MAYBE"}, c \in {49, 50, 69, 70, 85}}

(* SpecGate: decisions are generated on both paths while the first of them is
   judged and one optimization task at a time replaces the learning context. *)

InitEnv ==
    /\ has_prefs = TRUE
    /\ authenticated = FALSE
    /\ accounts = <<>>
    /\ portfolio = <<>>
    /\ params = NoParams

InitGate ==
    /\ InitTables
    /\ InitEnv
    /\ config \in [threshold : ThresholdValues, auto_trading : {TRUE}]
    /\ model \in BOOLEAN

NextGate ==
    \/ \E sentiment \in {-50, 0, 50}, answer \in GateAnswers :
          AnalyzeSymbol("AAPL", sentiment, answer, MaxGateDecisions)
    \/ SubmitDecisionFeedback(1, "GOOD")
    \/ \E acquire \in SessionAcquire, lookup \in MemberLookup :
          OptStart("w1", acquire, lookup)
    \/ OptReadActive("w1")
    \/ \E committed \in BOOLEAN : OptCommit("w1", committed)

SpecGate == InitGate /\ [][NextGate]_vars

(* SpecCycle: optimization tasks run one after another, with feedback
   submission and the clock. *)

FallbackOnly == [kind |-> "raises", decision |-> NoValue, confidence |-> 0]

InitLearn ==
    /\ InitTables
    /\ InitEnv
    /\ config = [threshold |-> DefaultThreshold, auto_trading |-> TRUE]
    /\ model = FALSE

NextCycle ==
    \/ AnalyzeSymbol("AAPL", 50, FallbackOnly, MaxLearnDecisions)
    \/ \E id \in 1..MaxLearnDecisions, feedback \in UserFeedback :
          SubmitDecisionFeedback(id, feedback)
    \/ Tick
    \/ \E acquire \in SessionAcquire, lookup \in MemberLookup :
          OptStart("w1", acquire, lookup)
    \/ OptReadActive("w1")
    \/ \E committed \in BOOLEAN : OptCommit("w1", committed)

SpecCycle == InitLearn /\ [][NextCycle]_vars

(* SpecLearn: two optimization tasks run concurrently. *)

NextLearn ==
    \/ AnalyzeSymbol("AAPL", 50, FallbackOnly, MaxLearnDecisions)
    \/ \E id \in 1..MaxLearnDecisions, feedback \in {"GOOD", "BAD"} :
          SubmitDecisionFeedback(id, feedback)
    \/ Tick
    \/ \E w \in Workers, acquire \in SessionAcquire, lookup \in MemberLookup :
          OptStart(w, acquire, lookup)
    \/ \E w \in Workers : OptReadActive(w)
    \/ \E w \in Workers, committed \in BOOLEAN : OptCommit(w, committed)

SpecLearn == InitLearn /\ [][NextLearn]_vars

(* SpecParams: the learning parameters as a function of the feedback counts. *)

DeriveParameters ==
    /\ ~params.derived
    /\ LET p == NewLearningParams(params.positive, params.total)
       IN  params' = [params EXCEPT !.derived = TRUE,
                         !.confidence_threshold = p.confidence_threshold,
                         !.risk_adjustment = p.risk_adjustment]
    /\ UNCHANGED <<envVars, decisions, now, learnVars, analysis, execVars>>

InitParams ==
    /\ InitTables
    /\ config = [threshold |-> DefaultThreshold, auto_trading |-> TRUE]
    /\ model = FALSE
    /\ has_prefs = TRUE
    /\ authenticated = FALSE
    /\ accounts = <<>>
    /\ portfolio = <<>>
    /\ \E total \in 1..MaxTotal : \E positive \in 0..total :
          params = [NoParams EXCEPT !.positive = positive, !.total = total]

SpecParams == InitParams /\ [][DeriveParameters]_vars

(* SpecExec: decisions are stored while execute_etrade_trades runs, up to
   MaxRuns times, against a broker whose account list and positions are drawn
   at the start. *)

AccountLists == {<<>>, <<"">>, <<"acct-1">>}

Positions == [symbolDescription : Symbols, quantity : 0..MaxHeld]

Portfolios ==
    UNION {[1..n -> Positions] : n \in 0..MaxPositions}

ExecAnswers ==
    {[kind |-> "json", decision |-> t, confidence |-> 85] : t \in {"buy", "SELL", "WATCH"}}

PlaceResponses == {"preview_raises", "no_preview_id", "place_raises", "placed"}

InitExec ==
    /\ InitTables
    /\ params = NoParams
    /\ config \in [threshold : {DefaultThreshold}, auto_trading : BOOLEAN]
    /\ model = TRUE
    /\ has_prefs \in BOOLEAN
    /\ authenticated \in BOOLEAN
    /\ accounts \in AccountLists
    /\ portfolio \in Portfolios

NextExec ==
    \/ \E symbol \in Symbols, answer \in ExecAnswers :
          AnalyzeSymbol(symbol, 0, answer, MaxExecDecisions)
    \/ Tick
    \/ \E acquire \in SessionAcquire, listing \in {"raises", "accounts"},
          binding \in {"raises", "bound"} : ExecStart("w1", acquire, listing, binding)
    \/ \E fetch \in {NoValue, "raises", "portfolio"} : ExecDecide("w1", fetch)
    \/ \E response \in {"raises", "returns"} : ExecPreview("w1", 1, response)
    \/ \E response \in PlaceResponses : ExecPlace("w1", 1, response)
    \/ \E committed \in BOOLEAN : ExecCommit("w1", committed)

SpecExec == InitExec /\ [][NextExec]_vars

(* SpecRace: two execute_etrade_trades tasks and a manual order through the web
   API run concurrently on one account that holds one share of AAPL. *)

InitRace ==
    /\ InitTables
    /\ params = NoParams
    /\ config = [threshold |-> DefaultThreshold, auto_trading |-> TRUE]
    /\ model = TRUE
    /\ has_prefs = TRUE
    /\ authenticated = TRUE
    /\ accounts = <<"acct-1">>
    /\ portfolio = <<[symbolDescription |-> "AAPL", quantity |-> 2]>>

ApiOrders == [symbol : {"AAPL"}, order_action : {"BUY", "SELL"}, quantity : {1}]

NextRace ==
    \/ \E answer \in ExecAnswers : AnalyzeSymbol("AAPL", 0, answer, MaxRaceDecisions)
    \/ \E id \in 1..MaxRaceDecisions : SubmitDecisionFeedback(id, "GOOD")
    \/ Tick
    \/ \E w \in Workers, acquire \in SessionAcquire, listing \in {"raises", "accounts"},
          binding \in {"raises", "bound"} : ExecStart(w, acquire, listing, binding)
    \/ \E w \in Workers, fetch \in {NoValue, "raises", "portfolio"} : ExecDecide(w, fetch)
    \/ \E w \in Workers, response \in {"raises", "returns"} : ExecPreview(w, 1, response)
    \/ \E w \in Workers, response \in PlaceResponses : ExecPlace(w, 1, response)
    \/ \E w \in Workers, committed \in BOOLEAN : ExecCommit(w, committed)
    \/ \E order \in ApiOrders, response \in PlaceResponses :
          ApiPlaceOrder(order, 1, response, MaxApiCalls)

SpecRace == InitRace /\ [][NextRace]_vars

(* SpecOrders: preview_equity_order and place_equity_order are called through
   the web API, up to MaxOrderCalls times.  random.randint draws the client
   order id from a range that MaxClientOrderIds values stand for. *)

ClientOrderIds == 1..MaxClientOrderIds

OrderInputs == [symbol : Symbols, order_action : {"BUY", "SELL"}, quantity : {1, 2}]

NextOrders ==
    \/ \E order \in OrderInputs, id \in ClientOrderIds,
          response \in {"raises", "no_preview_id", "returns"} :
          ApiPreviewOrder(order, id, response, MaxOrderCalls)
    \/ \E order \in OrderInputs, id \in ClientOrderIds, response \in PlaceResponses :
          ApiPlaceOrder(order, id, response, MaxOrderCalls)

SpecOrders == InitRace /\ [][NextOrders]_vars

(* SpecSentiment: one call of analyze_market_sentiment, of its fallback or of
   the batch keyword analysis, on a market snapshot, a backend answer and up to
   MaxHeadlines headlines drawn at the start. *)

ChangePercents ==
    {Missing, Value("none", NaN, ""), Value("str", NaN, "2.5"), Value("str", NaN, "N/A")} \cup
    {Value("float", f, "") :
        f \in {Float(0, 1), Float(5, 2), Float(-40, 1), Float(150, 1), Float(-250, 1),
               NaN, Infinity, MinusInfinity}}

BackendScores ==
    {Missing, Value("none", NaN, ""), Value("str", NaN, "nan"), Value("str", NaN, "N/A")} \cup
    {Value("float", f, "") :
        f \in {Float(2, 5), Float(5, 2), Float(-3, 1), NaN, Infinity, MinusInfinity}}

BackendFailures == {[NoResponse EXCEPT !.kind = k] : k \in {"raises", "unparsable", "not_object"}}

BackendResponses ==
    BackendFailures \cup
    {[NoResponse EXCEPT !.kind = "object", !.sentiment_score = v] : v \in BackendScores}

HeadlineTitles ==
    {
      <<"S", "h", "a", "r", "e", "s", " ", "f", "l", "a", "t">>,
      <<"U", "p", "g", "r", "a", "d", "e", ":", " ", "S", "T", "R", "O", "N", "G", " ", "g", "r", "o", "w", "t", "h">>,
      <<"B", "e", "a", "r", "s", " ", "s", "e", "e", " ", "d", "o", "w", "n", "f", "a", "l", "l">>,
      <<"G", "a", "i", "n", " ", "u", "p", ",", " ", "d", "r", "o", "p", " ", "w", "e", "a", "k">>
    }

HeadlineSummaries == {<<>>, <<"R", "i", "s", "k", " ", "o", "f", " ", "a", " ", "s", "l", "u", "m", "p">>}

AgeHours == {-24, 0, 36, 100}

Headlines == [title : HeadlineTitles, summary : HeadlineSummaries, age_hours : AgeHours]

HeadlineLists == UNION {[1..n -> Headlines] : n \in 0..MaxHeadlines}

TitleLists ==
    UNION {[1..n -> [title : HeadlineTitles, summary : {<<>>}, age_hours : {0}]] :
              n \in 0..MaxHeadlines}

InitSentiment ==
    /\ InitRows
    /\ InitEnv
    /\ config = [threshold |-> DefaultThreshold, auto_trading |-> TRUE]
    /\ model = FALSE
    /\ \/ \E has_model \in BOOLEAN, market_data \in ChangePercents,
             response \in BackendResponses, headlines \in TitleLists :
             analysis = [NoAnalysis EXCEPT !.fn = "analyze_market_sentiment",
                            !.has_model = has_model, !.market_data = market_data,
                            !.response = response, !.headlines = headlines]
       \/ \E market_data \in ChangePercents, headlines \in TitleLists :
             analysis = [NoAnalysis EXCEPT !.fn = "_fallback_sentiment_analysis",
                            !.market_data = market_data, !.headlines = headlines]
       \/ \E headlines \in HeadlineLists :
             analysis = [NoAnalysis EXCEPT !.fn = "_analyze_news_sentiment",
                            !.headlines = headlines]

NextSentiment ==
    \/ AnalyzeMarketSentiment
    \/ FallbackSentiment
    \/ NewsSentiment

SpecSentiment == InitSentiment /\ [][NextSentiment]_vars

(* SpecDecision: one call of generate_trading_decision on a sentiment score,
   a configured threshold and a backend answer drawn at the start. *)

SentimentScores == {-50, -31, -30, 0, 30, 31, 50}

DecisionTokens ==
    {Missing, Value("none", NaN, ""), Value("float", Float(1, 1), "")} \cup
    {Value("str", NaN, t) : t \in {"buy", "SELL", "WATCH", "MAYBE"}}

Confidences ==
    {Missing, Value("none", NaN, ""), Value("str", NaN, "N/A"), Value("str", NaN, "2.5")} \cup
    {Value("float", Float(c, 100), "") : c \in {-20, 49, 50, 69, 70, 85, 150}}

Rationales == {Missing, Value("none", NaN, ""), Value("str", NaN, "Strong momentum")}

PriceTargets == {Missing, Value("float", Float(150, 1), ""), Value("str", NaN, "high")}

DecisionResponses ==
    BackendFailures \cup
    {[NoResponse EXCEPT !.kind = "object", !.decision = d, !.confidence = c,
                        !.rationale = r, !.price_target = t] :
        d \in DecisionTokens, c \in Confidences, r \in Rationales, t \in PriceTargets}

InitDecision ==
    /\ InitRows
    /\ InitEnv
    /\ config = [threshold |-> DefaultThreshold, auto_trading |-> TRUE]
    /\ model = FALSE
    /\ \E has_model \in BOOLEAN, response \in DecisionResponses,
          sentiment_score \in SentimentScores, threshold \in ThresholdValues :
          analysis = [NoAnalysis EXCEPT !.fn = "generate_trading_decision",
                         !.has_model = has_model, !.response = response,
                         !.sentiment_score = sentiment_score, !.threshold = threshold]

SpecDecision == InitDecision /\ [][GenerateDecision]_vars

(* SpecBroker: up to MaxBrokerCalls calls of the broker operations, before and
   after the OAuth flow is completed. *)

InitBroker ==
    /\ InitTables
    /\ params = NoParams
    /\ config = [threshold |-> DefaultThreshold, auto_trading |-> TRUE]
    /\ model = FALSE
    /\ has_prefs = TRUE
    /\ authenticated = FALSE
    /\ accounts = <<"acct-1">>
    /\ portfolio = <<>>

NextBroker ==
    \/ \E operation \in BrokerOperations, response \in {"raises", "returns"} :
          BrokerCall(operation, [symbol |-> "AAPL", order_action |-> "BUY", quantity |-> 1],
                     1, response)
    \/ CompleteOAuth

SpecBroker == InitBroker /\ [][NextBroker]_vars

(* SpecLifecycle: a decision is stored, judged, executed by one
   execute_etrade_trades task and counted by one optimize_ai_learning task. *)

NextLifecycle ==
    \/ \E answer \in ExecAnswers : AnalyzeSymbol("AAPL", 0, answer, MaxLifecycleDecisions)
    \/ \E id \in 1..MaxLifecycleDecisions, feedback \in {"GOOD", "BAD"} :
          SubmitDecisionFeedback(id, feedback)
    \/ Tick
    \/ \E acquire \in SessionAcquire, listing \in {"raises", "accounts"},
          binding \in {"raises", "bound"} : ExecStart("w1", acquire, listing, binding)
    \/ \E fetch \in {NoValue, "raises", "portfolio"} : ExecDecide("w1", fetch)
    \/ \E response \in {"raises", "returns"} : ExecPreview("w1", 1, response)
    \/ \E response \in PlaceResponses : ExecPlace("w1", 1, response)
    \/ \E committed \in BOOLEAN : ExecCommit("w1", committed)
    \/ \E acquire \in SessionAcquire, lookup \in MemberLookup :
          OptStart("w2", acquire, lookup)
    \/ OptReadActive("w2")
    \/ \E committed \in BOOLEAN : OptCommit("w2", committed)

SpecLifecycle == InitRace /\ [][NextLifecycle]_vars

(* SpecProfile: execute_etrade_trades runs for a user whose profile and whose
   configuration file each allow or forbid automatic trading. *)

InitProfile ==
    /\ InitStore
    /\ analysis = NoAnalysis
    /\ params = NoParams
    /\ config \in [threshold : {DefaultThreshold}, auto_trading : BOOLEAN]
    /\ auto_trading_enabled \in BOOLEAN
    /\ model = TRUE
    /\ has_prefs = TRUE
    /\ authenticated = TRUE
    /\ accounts = <<"acct-1">>
    /\ portfolio = <<[symbolDescription |-> "AAPL", quantity |-> 2]>>

SpecProfile == InitProfile /\ [][NextExec]_vars

(* SpecBackend: one call of analyze_market_sentiment or of
   generate_trading_decision, with the backend call as a step of its own.  The
   steps of the program are fair; the backend is not bound to answer. *)

InitBackend ==
    /\ InitRows
    /\ InitEnv
    /\ config = [threshold |-> DefaultThreshold, auto_trading |-> TRUE]
    /\ model = FALSE
    /\ \/ \E has_model \in BOOLEAN, market_data \in ChangePercents,
             response \in BackendResponses :
             analysis = [NoAnalysis EXCEPT !.fn = "analyze_market_sentiment",
                            !.has_model = has_model, !.market_data = market_data,
                            !.response = response, !.pc = "called"]
       \/ \E has_model \in BOOLEAN, sentiment_score \in SentimentScores,
             threshold \in ThresholdValues,
             response \in {r \in DecisionResponses :
                              r.rationale = Missing /\ r.price_target = Missing} :
             analysis = [NoAnalysis EXCEPT !.fn = "generate_trading_decision",
                            !.has_model = has_model, !.response = response,
                            !.sentiment_score = sentiment_score,
                            !.threshold = threshold, !.pc = "called"]

NextBackend ==
    \/ AwaitBackend
    \/ BackendAnswers
    \/ AnalyzeMarketSentiment
    \/ GenerateDecision

SpecBackend ==
    /\ InitBackend
    /\ [][NextBackend]_vars
    /\ WF_vars(AwaitBackend)
    /\ WF_vars(AnalyzeMarketSentiment)
    /\ WF_vars(GenerateDecision)

(* SpecBatch: one call of analyze_market_sentiment_batch on up to
   MaxBatchSymbols symbols, a symbol possibly more than once. *)

BatchHeadlines ==
    {<<>>} \cup
    {<<[title |-> t, summary |-> <<>>, age_hours |-> 0]>> : t \in HeadlineTitles}

BatchFeeds == [headlines : BatchHeadlines, fault : {"none", "analysis", "store"}]

InitBatch ==
    /\ InitRows
    /\ InitEnv
    /\ config = [threshold |-> DefaultThreshold, auto_trading |-> TRUE]
    /\ model = FALSE
    /\ \E n \in 0..MaxBatchSymbols :
          \E symbols \in [1..n -> Symbols], feeds \in [1..n -> BatchFeeds] :
             analysis = [NoAnalysis EXCEPT !.fn = "analyze_market_sentiment_batch",
                            !.batch = [symbols |-> symbols, feeds |-> feeds, i |-> 1,
                                       results |-> <<>>, status |-> "running"]]

NextBatch ==
    \/ BatchSymbol
    \/ \E committed \in BOOLEAN : BatchCommit(committed)

SpecBatch == InitBatch /\ [][NextBatch]_vars

(* SpecSerial: runs of execute_etrade_trades one after another, as the beat
   schedule sends them, on an account that holds one share of AAPL. *)

NextSerial ==
    \/ \E answer \in ExecAnswers : AnalyzeSymbol("AAPL", 0, answer, MaxExecDecisions)
    \/ Tick
    \/ \E w \in Workers, acquire \in SessionAcquire, listing \in {"raises", "accounts"},
          binding \in {"raises", "bound"} : SerialStart(w, acquire, listing, binding)
    \/ \E w \in Workers, fetch \in {NoValue, "raises", "portfolio"} : ExecDecide(w, fetch)
    \/ \E w \in Workers, response \in {"raises", "returns"} : ExecPreview(w, 1, response)
    \/ \E w \in Workers, response \in PlaceResponses : ExecPlace(w, 1, response)
    \/ \E w \in Workers, committed \in BOOLEAN : ExecCommit(w, committed)

SpecSerial == InitRace /\ [][NextSerial]_vars

(* SpecPeriodic: execute_etrade_trades runs again and again, as the beat
   schedule sends it, on an account that holds one share of AAPL; the session
   and the order service are available to every run, and a run that has begun
   goes on to its end.  A BUY decision for AAPL is stored first and SELL
   decisions for MSFT, which is not held, on a later day. *)

PeriodicDecisions == BatchLimit + 1

PeriodicStart == ExecStart("w1", "session", "accounts", "bound")
PeriodicDecide == \E fetch \in {NoValue, "raises", "portfolio"} : ExecDecide("w1", fetch)
PeriodicPreview == \E response \in {"raises", "returns"} : ExecPreview("w1", 1, response)
PeriodicPlace == \E response \in PlaceResponses : ExecPlace("w1", 1, response)
PeriodicCommit == \E committed \in BOOLEAN : ExecCommit("w1", committed)

NextPeriodic ==
    \/ /\ decisions = <<>>
       /\ AnalyzeSymbol("AAPL", 0, [kind |-> "json", decision |-> "buy", confidence |-> 85],
                        PeriodicDecisions)
    \/ /\ decisions # <<>> /\ decisions[1].created_at < now
       /\ AnalyzeSymbol("MSFT", 0, [kind |-> "json", decision |-> "SELL", confidence |-> 85],
                        PeriodicDecisions)
    \/ Tick
    \/ PeriodicStart
    \/ PeriodicDecide
    \/ PeriodicPreview
    \/ PeriodicPlace
    \/ PeriodicCommit
    \/ ExecReturn("w1")

SpecPeriodic ==
    /\ InitRace
    /\ [][NextPeriodic]_vars
    /\ WF_vars(PeriodicStart)
    /\ WF_vars(PeriodicDecide)
    /\ WF_vars(PeriodicPreview)
    /\ WF_vars(PeriodicPlace)
    /\ WF_vars(PeriodicCommit)
    /\ WF_vars(ExecReturn("w1"))

(* SpecFeedback: feedback is submitted, for stored and for unknown ids, while
   decisions are stored and one execute_etrade_trades task runs. *)

NextFeedback ==
    \/ \E answer \in ExecAnswers : AnalyzeSymbol("AAPL", 0, answer, MaxExecDecisions)
    \/ \E id \in 1..MaxExecDecisions, feedback \in UserFeedback :
          SubmitDecisionFeedback(id, feedback)
    \/ Tick
    \/ \E acquire \in SessionAcquire, listing \in {"raises", "accounts"},
          binding \in {"raises", "bound"} : ExecStart("w1", acquire, listing, binding)
    \/ \E fetch \in {NoValue, "raises", "portfolio"} : ExecDecide("w1", fetch)
    \/ \E response \in {"raises", "returns"} : ExecPreview("w1", 1, response)
    \/ \E response \in PlaceResponses : ExecPlace("w1", 1, response)
    \/ \E committed \in BOOLEAN : ExecCommit("w1", committed)

SpecFeedback == InitRace /\ [][NextFeedback]_vars

(* SpecCleanup: cleanup_old_data runs between the storing of decisions, feedback
   submissions and optimization tasks, over two retention periods. *)

NextCleanup ==
    \/ AnalyzeSymbol("AAPL", 50, FallbackOnly, MaxCleanupDecisions)
    \/ \E id \in 1..MaxCleanupDecisions, feedback \in {"GOOD", "BAD"} :
          SubmitDecisionFeedback(id, feedback)
    \/ Advance(MaxCleanupTicks)
    \/ \E acquire \in SessionAcquire, committed \in BOOLEAN :
          CleanupOldData(acquire, committed)
    \/ \E acquire \in SessionAcquire, lookup \in MemberLookup :
          OptStart("w1", acquire, lookup)
    \/ OptReadActive("w1")
    \/ \E committed \in BOOLEAN : OptCommit("w1", committed)

SpecCleanup == InitLearn /\ [][NextCleanup]_vars

-----------------------------------------------------------------------------
(* Claims *)

\* C1: every decision generate_trading_decision returned, on the backend path
\* or on the fallback path, whose confidence is strictly below the threshold in
\* force at the call has type HOLD.
C1_GatedToHold ==
    \A i \in 1..Len(decisions) :
        decisions[i].confidence_score < config.threshold
            => decisions[i].decision_type = "HOLD"

C1_Witness ==
    \E i, j \in 1..Len(decisions) :
        /\ decisions[i].path = "backend"
        /\ decisions[i].confidence_score < config.threshold
        /\ decisions[i].note = "confidence_below_threshold"
        /\ decisions[j].path = "fallback"
        /\ decisions[j].confidence_score < config.threshold
        /\ decisions[j].note = "below_confidence_threshold"

VersionsIncreaseFromOne ==
    /\ contexts # <<>> => contexts[1].version = 1
    /\ \A i \in 1..Len(contexts) - 1 : contexts[i].version < contexts[i + 1].version

\* C4: after optimization tasks that ran one after another, at least one of
\* which found feedback, exactly one learning context is active and the versions
\* of the contexts, in the order they became active, increase strictly from 1.
C4_OneActiveAfterCycles ==
    (hist.fed /\ opt["w1"].pc \in {"idle", "done"})
        => (Cardinality(ActiveContexts) = 1 /\ VersionsIncreaseFromOne)

\* C5: an optimization task that found feedback ends with success, having
\* deactivated the context it read and inserted an active one with the next
\* version (1 if there was none) whose accuracy_rate is the number of decisions
\* judged GOOD over the number of decisions with feedback.
C5_CycleWithFeedbackCommits ==
    \A w \in Workers :
        (opt[w].pc = "done" /\ opt[w].feedback # {}) =>
            /\ opt[w].result = "success"
            /\ opt[w].created \in 1..Len(contexts)
            /\ contexts[opt[w].created].version =
                  (IF opt[w].active # 0 THEN contexts[opt[w].active].version + 1 ELSE 1)
            /\ opt[w].active # 0 => ~contexts[opt[w].active].is_active
            /\ FracEq(contexts[opt[w].created].accuracy_rate,
                      <<opt[w].good, Cardinality(opt[w].feedback)>>)

C7_LearningParameters ==
    params.derived =>
        LET p == params.positive
            t == params.total
            thr == params.confidence_threshold
        IN  /\ 10 * p < 3 * t => FracEq(thr, <<1, 2>>)
            /\ 10 * p > 7 * t => FracEq(thr, <<9, 10>>)
            /\ (3 * t <= 10 * p /\ 10 * p <= 7 * t) => FracEq(thr, <<t + 5 * p, 5 * t>>)
            /\ FracLeq(<<1, 2>>, thr) /\ FracLeq(thr, <<9, 10>>)
            /\ FracEq(params.risk_adjustment, <<9 * t + 2 * p, 10 * t>>)

C7_Witness ==
    /\ params.derived
    /\ params.positive = params.total
    /\ params.total > 1
    /\ FracEq(params.confidence_threshold, <<9, 10>>)

\* the position a SELL of the decision is checked against: 0 when the portfolio
\* has none for its symbol
HeldPosition(id) == FindPosition(decisions[id].symbol)

RequestsFor(w, run, id) ==
    {n \in 1..Len(requests) :
        requests[n].worker = w /\ requests[n].run = run /\ requests[n].decision = id}

\* C8: a SELL decision processed while the portfolio has no position for its
\* symbol is skipped: no Preview and no Place request is sent for it, its
\* executed_at stays unset, it does not end as a failure, and the batch goes on
\* with the next decision (or ends with success after the last one).
C8_SellWithoutPositionSkipped ==
    /\ \A n \in 1..Len(requests) :
          requests[n].order_action = "SELL" =>
              \E k \in 1..Len(portfolio) :
                  portfolio[k].symbolDescription = requests[n].symbol
    /\ \A n \in 1..Len(outcomes) :
          LET o == outcomes[n]
              d == decisions[o.decision]
          IN  (/\ d.decision_type = "SELL"
               /\ o.fetch = "portfolio"
               /\ \A k \in 1..Len(portfolio) : portfolio[k].symbolDescription # d.symbol)
              => /\ o.outcome = "skipped"
                 /\ d.executed_at = 0
                 /\ RequestsFor(o.worker, o.run, o.decision) = {}
                 /\ o.run = exec[o.worker].run =>
                       IF o.index < Len(exec[o.worker].batch)
                         THEN exec[o.worker].i > o.index
                         ELSE /\ exec[o.worker].pc = "done"
                              /\ exec[o.worker].result = "success"

C8_Witness ==
    /\ Len(exec["w1"].batch) = 2
    /\ portfolio # <<>>
    /\ \E m, n \in 1..Len(outcomes) :
          /\ outcomes[m].index = 1 /\ outcomes[m].outcome = "skipped"
          /\ outcomes[n].index = 2 /\ outcomes[n].outcome = "executed"
          /\ decisions[outcomes[n].decision].executed_at # 0
          /\ decisions[outcomes[m].decision].executed_at = 0

OutcomesOf(w, run, index) ==
    {n \in 1..Len(outcomes) :
        outcomes[n].worker = w /\ outcomes[n].run = run /\ outcomes[n].index = index}

SameOrder(m, n) ==
    /\ requests[m].worker = requests[n].worker
    /\ requests[m].run = requests[n].run
    /\ requests[m].decision = requests[n].decision

C16_FreshClientOrderId ==
    \A m, n \in 1..Len(requests) :
        (/\ requests[m].kind = "preview" /\ requests[n].kind = "preview"
         /\ requests[m].client_order_id = requests[n].client_order_id)
            => m = n

InUnitRange(score) == score[2] > 0 /\ -score[2] <= score[1] /\ score[1] <= score[2]

\* C18: whatever the price change, the headlines and the backend answer are,
\* a score returned by analyze_market_sentiment, by its fallback or by the
\* batch keyword analysis lies in [-1, 1].
C18_ScoreInUnitRange ==
    analysis.result.status = "returned" => InUnitRange(analysis.result.sentiment_score)

C18_Witness ==
    /\ analysis.result.status = "returned"
    /\ analysis.result.path = "backend"
    /\ analysis.response.sentiment_score.type = "float"
    /\ FloatLt(Float(1, 1), analysis.response.sentiment_score.float)
    /\ analysis.result.sentiment_score = Float(1, 1)

\* C19: a call of analyze_market_sentiment or of its fallback that has ended
\* has returned a result; it has not raised, whatever the market snapshot
\* holds under change_percent and whatever the backend did.
C19_SentimentNeverRaises ==
    analysis.result.status # NoValue => analysis.result.status = "returned"

\* the number of the words that occur in the text
Hits(words, text) == Cardinality({i \in 1..Len(words) : Occurs(words[i], text)})

\* clamp(-1, 1, n / d), d > 0
ClampFraction(f) ==
    IF f[1] > f[2] THEN <<1, 1>> ELSE IF f[1] < -f[2] THEN <<-1, 1>> ELSE f

\* C20: a score the fallback path returned for a price change that is a finite
\* number c, or missing (c = 0), equals clamp(-1, 1, c / 100 + 0.3 * polarity),
\* where polarity is (positiveHits - negativeHits) / (positiveHits +
\* negativeHits) over the concatenated lower-cased headline text, and 0 when
\* no keyword occurs.
C20_FallbackScoreFormula ==
    LET change == IF analysis.market_data.type = "missing"
                  THEN [raised |-> FALSE, float |-> Float(0, 1)]
                  ELSE PyFloat(analysis.market_data)
        text == Lower(Join(<<" ">>, Titles(analysis.headlines)))
        p == Hits(positive_words, text)
        n == Hits(negative_words, text)
        c == change.float
        \* c / 100 + 3 (p - n) / (10 (p + n)), over the common denominator
        expected == IF p + n = 0 THEN <<c[1], 100 * c[2]>>
                    ELSE <<c[1] * (p + n) + 30 * (p - n) * c[2], 100 * c[2] * (p + n)>>
    IN  (/\ analysis.result.status = "returned"
         /\ analysis.result.path = "fallback"
         /\ ~change.raised
         /\ IsFinite(c))
            => FracEq(analysis.result.sentiment_score, ClampFraction(expected))

C20_Witness ==
    /\ analysis.result.status = "returned"
    /\ analysis.result.path = "fallback"
    /\ analysis.market_data.type = "float"
    /\ IsFinite(analysis.market_data.float)
    /\ analysis.market_data.float[1] # 0
    /\ analysis.result.positive_count > analysis.result.negative_count
    /\ analysis.result.negative_count > 0
    /\ FloatLt(analysis.result.sentiment_score, Float(1, 1))
    /\ FloatLt(Float(-1, 1), analysis.result.sentiment_score)

\* the call of generate_trading_decision has returned a Decision
Decided == analysis.fn = "generate_trading_decision" /\ analysis.decision.status = "returned"

\* C21: a Decision of the fallback path has, before the gate, type BUY and
\* confidence 0.6 when the sentiment is above 0.3, SELL and 0.6 when it is
\* below -0.3, HOLD and 0.5 otherwise (0.3 and -0.3 included); the confidence
\* returned is that one, whether or not the gate changed the type.
C21_FallbackRawDecision ==
    (Decided /\ analysis.decision.path = "fallback") =>
        LET s == analysis.sentiment_score
            d == analysis.decision
        IN  /\ s > 30 => (d.raw = "BUY" /\ d.confidence_score = 60)
            /\ s < -30 => (d.raw = "SELL" /\ d.confidence_score = 60)
            /\ (-30 <= s /\ s <= 30) => (d.raw = "HOLD" /\ d.confidence_score = 50)
            /\ d.decision_type \in {d.raw, "HOLD"}

C21_Witness ==
    /\ Decided
    /\ analysis.decision.path = "fallback"
    /\ analysis.sentiment_score = 31
    /\ analysis.decision.raw = "BUY"
    /\ analysis.decision.decision_type = "HOLD"
    /\ analysis.decision.confidence_score = 60

\* C22: the Decision generate_trading_decision returns has type BUY, SELL or
\* HOLD, whatever decision token the backend answered with.
C22_TypeIsBuySellHold ==
    Decided => analysis.decision.decision_type \in {"BUY", "SELL", "HOLD"}

\* what C23 lists: the backend is absent, raises, or answers text that is no
\* JSON, JSON that is no object, a confidence that is no number, or a decision
\* that is no string
BackendFailed ==
    \/ ~analysis.has_model
    \/ analysis.response.kind \in {"raises", "unparsable", "not_object"}
    \/ analysis.response.confidence.type = "none"
    \/ (analysis.response.confidence.type = "str"
            /\ analysis.response.confidence.str = "N/A")
    \/ analysis.response.decision.type \in {"none", "float"}

\* C23: when the backend is absent or failed in one of those ways, the call
\* of generate_trading_decision that has ended has returned, and its Decision
\* is the one the fallback path computes from the same sentiment and threshold.
C23_BackendFailureGivesFallback ==
    (/\ analysis.fn = "generate_trading_decision"
     /\ analysis.decision.status # NoValue
     /\ BackendFailed)
        => analysis.decision =
               FallbackTradingDecision(analysis.sentiment_score, analysis.threshold)

C23_Witness ==
    /\ Decided
    /\ analysis.has_model
    /\ analysis.response.kind = "object"
    /\ analysis.response.confidence.type = "str"
    /\ analysis.response.confidence.str = "N/A"
    /\ analysis.response.decision.str = "buy"
    /\ analysis.decision.path = "fallback"
    /\ analysis.decision.decision_type = "SELL"

\* C26: the confidence of a Decision generate_trading_decision returns lies in
\* [0, 1], whatever confidence the backend answered with.
C26_ConfidenceInUnitRange ==
    Decided => (0 <= analysis.decision.confidence_score
                    /\ analysis.decision.confidence_score <= 100)

\* the text mentions "confidence" and the value of the confidence or of the
\* threshold
NotesThreshold(rationale, confidence, threshold) ==
    /\ Occurs(<<"c", "o", "n", "f", "i", "d", "e", "n", "c", "e">>, Lower(rationale))
    /\ \/ Occurs(FormatFloat(confidence), rationale)
       \/ Occurs(FormatFloat(threshold), rationale)

\* C30: a Decision the gate forced to HOLD has a rationale that mentions
\* confidence together with the value of the confidence or of the threshold,
\* on both paths; with sentiment 0.5, threshold 0.7 and no backend that is
\* HOLD, confidence 0.6 and a rationale with "confidence" and "0.6" or "0.7".
C30_GatedRationaleNotesThreshold ==
    (Decided /\ analysis.decision.confidence_score < analysis.threshold) =>
        /\ analysis.decision.decision_type = "HOLD"
        /\ NotesThreshold(analysis.decision.rationale,
                          analysis.decision.confidence_score, analysis.threshold)

\* C25: a broker operation called with no authenticated session ends at once
\* in the precondition error and has sent no request; no request of it is
\* sent later either.
C25_NoSessionNoRequest ==
    \A i \in 1..Len(outcomes) :
        (outcomes[i].operation \in BrokerOperations /\ ~outcomes[i].session) =>
            /\ outcomes[i].outcome = "precondition_error"
            /\ \A n \in 1..Len(requests) : requests[n].run # outcomes[i].run

C25_Witness ==
    \E i, j \in 1..Len(outcomes) :
        /\ i < j
        /\ outcomes[i].operation = "place_equity_order"
        /\ ~outcomes[i].session
        /\ outcomes[i].outcome = "precondition_error"
        /\ outcomes[j].operation = "place_equity_order"
        /\ outcomes[j].session
        /\ \E n \in 1..Len(requests) : requests[n].run = outcomes[j].run

\* C27: no step changes the decision_type of a stored decision: not the
\* execution of the trade, not a feedback, not an optimization cycle.
C27_TypeImmutable ==
    [][\A i \in 1..Len(decisions) :
          /\ i <= Len(decisions')
          /\ decisions'[i].decision_type = decisions[i].decision_type]_vars

C27_Witness ==
    \E i \in 1..Len(decisions) :
        /\ decisions[i].decision_type = "BUY"
        /\ decisions[i].executed_at # 0
        /\ decisions[i].user_feedback = "BAD"
        /\ contexts # <<>>

C29_TwoActiveAbortsCycle ==
    [][\A w \in Workers :
          (/\ opt[w].pc = "read_active"
           /\ Cardinality(ActiveContexts) > 1
           /\ opt'[w] # opt[w])
              => /\ opt'[w].pc = "done"
                 /\ opt'[w].result = "error"
                 /\ contexts' = contexts]_vars

C29_Witness ==
    /\ Cardinality(ActiveContexts) > 1
    /\ \E w \in Workers :
          /\ opt[w].pc = "done"
          /\ opt[w].result = "error"
          /\ opt[w].active = -1

\* the call of analyze_market_sentiment or generate_trading_decision has ended
CallEnded ==
    \/ analysis.result.status # NoValue
    \/ analysis.decision.status # NoValue

\* C24: a call that is waiting for the backend eventually ends, whether or
\* not the backend ever answers.
C24_BackendCallReturns == (analysis.pc = "awaiting") ~> CallEnded

\* the positions of the batch that hold the symbol
PositionsOf(symbol) ==
    {j \in 1..Len(analysis.batch.symbols) : analysis.batch.symbols[j] = symbol}

\* C31: the map analyze_market_sentiment_batch returns has one entry for each
\* input symbol and no other; a symbol without headlines or whose analysis
\* raised (at its last occurrence) maps to 0.0; and a call ends only after the
\* loop has gone through every symbol, whichever of them failed.
C31_BatchIsolatesFaults ==
    LET batch == analysis.batch
        symbols == {batch.symbols[j] : j \in 1..Len(batch.symbols)}
    IN  /\ batch.status \in {"returned", "raised"} => batch.i = Len(batch.symbols) + 1
        /\ batch.status = "returned" =>
              /\ DOMAIN batch.results = symbols
              /\ \A symbol \in symbols :
                    LET feed == batch.feeds[CHOOSE j \in PositionsOf(symbol) :
                                               \A k \in PositionsOf(symbol) : k <= j]
                    IN  (feed.headlines = <<>> \/ feed.fault # "none")
                            => batch.results[symbol] = Float(0, 1)

C31_Witness ==
    /\ analysis.batch.status = "returned"
    /\ Len(analysis.batch.symbols) = 2
    /\ analysis.batch.symbols[1] # analysis.batch.symbols[2]
    /\ analysis.batch.feeds[1].headlines # <<>>
    /\ analysis.batch.feeds[1].fault = "store"
    /\ analysis.batch.results[analysis.batch.symbols[1]] = Float(0, 1)
    /\ analysis.batch.results[analysis.batch.symbols[2]] = Float(1, 1)

\* the decisions with feedback that were created within the trailing window
CreatedInWindowWithFeedback ==
    {i \in 1..Len(decisions) :
        /\ decisions[i].user_feedback # NoValue
        /\ decisions[i].created_at > now - FeedbackWindowDays}

C33_ReplacementAtomic ==
    [][/\ \A w \in Workers :
             (opt'[w] # opt[w] /\ opt'[w].result = "error") => contexts' = contexts
       /\ contexts' # contexts =>
             /\ Len(contexts') = Len(contexts) + 1
             /\ contexts'[Len(contexts')].is_active
       /\ contexts # <<>> =>
             \E i \in 1..Len(contexts') : contexts'[i].is_active]_vars

\* a task that had read the active context failed at its commit, and that
\* context is still the active one
C33_Witness ==
    \E w \in Workers :
        /\ opt[w].pc = "done"
        /\ opt[w].result = "error"
        /\ opt[w].active >= 1
        /\ contexts[opt[w].active].is_active

\* one of the preconditions of execute_etrade_trades fails
PreconditionFails ==
    \/ ~authenticated
    \/ ~config.auto_trading
    \/ ~has_prefs
    \/ accounts = <<>>
    \/ AccountIdKey = ""

\* C34: a run of execute_etrade_trades that starts while one of its
\* preconditions fails ends with the outcome skipped, sends no request to the
\* broker and changes no decision.
C34_FailedPreconditionSkips ==
    [][\A w \in Workers :
          (exec'[w] # exec[w] /\ PreconditionFails)
              => /\ exec'[w].pc = "done"
                 /\ exec'[w].result = "skipped"
                 /\ requests' = requests
                 /\ decisions' = decisions]_vars

PlacedFor(id) ==
    {n \in 1..Len(requests) :
        /\ requests[n].worker \in Workers
        /\ requests[n].decision = id
        /\ requests[n].kind = "place"
        /\ requests[n].response = "returns"}

Attempted(id) == \E n \in 1..Len(requests) : requests[n].decision = id

C38_FallbackNeverEligible ==
    GetAIConfidenceThreshold > FallbackConfidence =>
        \A id \in 1..Len(decisions) :
            decisions[id].path = "fallback"
                => (decisions[id].decision_type = "HOLD" /\ id \notin Eligible)

\* under the default threshold the fallback path has twice answered a sentiment
\* beyond 0.3 or -0.3 with confidence 0.6, gated to HOLD both times
C38_Witness ==
    /\ GetAIConfidenceThreshold = DefaultThreshold
    /\ \E i, j \in 1..Len(decisions) :
          /\ decisions[i].path = "fallback" /\ decisions[j].path = "fallback"
          /\ decisions[i].confidence_score = FallbackConfidence
          /\ decisions[j].confidence_score = FallbackConfidence
          /\ decisions[i].decision_type = "HOLD"
          /\ decisions[j].decision_type = "HOLD"
          /\ i # j

\* C39: a step of submit_decision_feedback for a stored decision changes that
\* decision's user_feedback and feedback_timestamp and nothing else, in that
\* decision, in any other decision or elsewhere; for an unknown id it changes
\* nothing.
C39_FeedbackChangesOnlyFeedback ==
    [][\A id \in 1..MaxExecDecisions, feedback \in UserFeedback :
          SubmitDecisionFeedback(id, feedback) =>
              /\ Len(decisions') = Len(decisions)
              /\ \A j \in 1..Len(decisions) :
                    /\ j # id => decisions'[j] = decisions[j]
                    /\ j = id =>
                          /\ decisions'[j] =
                                [decisions[j] EXCEPT
                                    !.user_feedback = decisions'[j].user_feedback,
                                    !.feedback_timestamp = decisions'[j].feedback_timestamp]
                          /\ decisions'[j].user_feedback = feedback
                          /\ decisions'[j].feedback_timestamp = now
              /\ id \notin 1..Len(decisions) => decisions' = decisions
              /\ UNCHANGED <<envVars, now, learnVars, params, analysis, execVars>>]_vars

\* an executed decision got its feedback on a later day while a second decision
\* is stored without feedback
C39_Witness ==
    /\ Len(decisions) = 2
    /\ decisions[1].executed_at # 0
    /\ decisions[1].user_feedback = "BAD"
    /\ decisions[1].feedback_timestamp > decisions[1].executed_at
    /\ decisions[2].user_feedback = NoValue

\* C40: every decision cleanup_old_data deletes has no user feedback and was
\* created before the retention cutoff, and a decision that has feedback is
\* stored, whatever cleanup runs and feedback submissions came before, so the
\* query of the next optimization task sees it.
C40_CleanupKeepsFeedback ==
    [][/\ \A i \in deleted' \ deleted :
             /\ decisions[i].user_feedback = NoValue
             /\ decisions[i].created_at < now - DataRetentionDays
       /\ \A i \in 1..Len(decisions') :
             decisions'[i].user_feedback # NoValue => i \notin deleted'
       /\ \A w \in Workers :
             (opt[w].pc \in {"idle", "done"} /\ opt'[w] # opt[w] /\ opt'[w].queried) =>
                 opt'[w].feedback =
                    {i \in 1..Len(decisions) :
                        /\ decisions[i].user_feedback # NoValue
                        /\ decisions[i].feedback_timestamp > now - FeedbackWindowDays}]_vars

\* cleanup deleted an old decision without feedback and kept an equally old
\* one with feedback, which an optimization task then collected
C40_Witness ==
    /\ deleted = {2}
    /\ decisions[1].user_feedback # NoValue
    /\ decisions[1].created_at < now - DataRetentionDays
    /\ decisions[1].created_at = decisions[2].created_at
    /\ opt["w1"].queried
    /\ opt["w1"].feedback = {1}

====
